---- MODULE Spec2Model ----
(***************************************************************************)
(* dbslice: extraction of a referentially consistent subset of a database. *)
(* The module models the graph traverser (core/graph.py), the cycle        *)
(* resolver and topological orderer (core/cycles.py, core/engine.py), the  *)
(* validator (validation.py), the streaming emitter (core/streaming.py)    *)
(* and the orchestrator's control flow (core/engine.py, adapters/base.py). *)
(***************************************************************************)
EXTENDS Integers, Sequences, FiniteSets, TLC

\* ------------------------------------------------------------------ bounds
\* Rows per table: every table of the source database holds rows 1..MaxId.
MaxId == 2
\* config.depth ranges over 0..MaxDepth.
MaxDepth == 2

\* The schemas given to the orderer have 1..MaxFks foreign keys.
MaxFks == 4

\* config.streaming_chunk_size ranges over 1..MaxChunk.
MaxChunk == 2

\* Python's None, SQL NULL.
NULL == 0

Ids == 1 .. MaxId

\* ------------------------------------------------- dict and list helpers
\* dict.get(k, default)
Get(d, k, default) == IF k \in DOMAIN d THEN d[k] ELSE default

\* d[k] = v on a dict
Put(d, k, v) == [x \in (DOMAIN d) \cup {k} |-> IF x = k THEN v ELSE d[x]]

EmptyDict == [x \in {} |-> {}]

Range(s) == {s[i] : i \in DOMAIN s}

\* list(S): the members of a set in some fixed order
RECURSIVE SeqOf(_)
SeqOf(S) ==
    IF S = {} THEN <<>>
    ELSE LET x == CHOOSE y \in S : TRUE IN <<x>> \o SeqOf(S \ {x})

\* tuple(row[col] for col in cols)
TupleOf(row, cols) == [i \in DOMAIN cols |-> row[cols[i]]]

\* --------------------------------------------------------------- the schema
\* The e-commerce schema of the specification's scenarios, with a nullable
\* self-reference on users (scenario 3) and a nullable product reference.
FK(name, st, sc, tt, tc, nullable) ==
    [name |-> name, source_table |-> st, source_columns |-> sc,
     target_table |-> tt, target_columns |-> tc, is_nullable |-> nullable]

fk_users_referrer == FK("fk_users_referrer", "users", <<"referrer_id">>, "users", <<"id">>, TRUE)
fk_orders_users     == FK("fk_orders_users", "orders", <<"user_id">>, "users", <<"id">>, FALSE)
fk_items_orders    == FK("fk_items_orders", "order_items", <<"order_id">>, "orders", <<"id">>, FALSE)
fk_items_products  == FK("fk_items_products", "order_items", <<"product_id">>, "products", <<"id">>, TRUE)

\* Table: its primary key and its foreign_keys list, which the PostgreSQL
\* adapter's introspection creates empty and never fills.
TableInfo(pk) == [primary_key |-> pk, foreign_keys |-> <<>>]

\* SchemaGraph.tables of the shop: every table has the primary key id.
ShopTables ==
    [users |-> TableInfo(<<"id">>),
     orders |-> TableInfo(<<"id">>),
     order_items |-> TableInfo(<<"id">>),
     products |-> TableInfo(<<"id">>)]

ShopSchema ==
    [tables |-> ShopTables,
     edges |-> <<fk_users_referrer, fk_orders_users, fk_items_orders, fk_items_products>>,
     virtual_edges |-> <<>>]

\* SchemaGraph.has_table
has_table(sch, name) == name \in DOMAIN sch.tables

\* SchemaGraph.get_parents: real edges first, then the virtual ones
get_parents(sch, table) ==
    SelectSeq(sch.edges, LAMBDA fk : fk.source_table = table)
        \o SelectSeq(sch.virtual_edges, LAMBDA fk : fk.source_table = table)

\* SchemaGraph.get_children
get_children(sch, table) ==
    SelectSeq(sch.edges, LAMBDA fk : fk.target_table = table)
        \o SelectSeq(sch.virtual_edges, LAMBDA fk : fk.target_table = table)

\* ------------------------------------------------------ the source database
\* A row of users refers to its cyclic successor (so that row data may be
\* cyclic), the first and the last row possibly to no one; row k of orders
\* and of order_items refers to row k, the last row to any row; the product
\* reference of item k is k, and that of the last item may be NULL.
NextId(k) == (k % MaxId) + 1

RefChoices == {f \in [Ids -> Ids \cup {NULL}] :
                  \A k \in Ids : f[k] \in (IF k \in {1, MaxId} THEN {NULL, NextId(k)}
                                                           ELSE {NextId(k)})}
UpToChoices == {f \in [Ids -> Ids] : \A k \in Ids : k < MaxId => f[k] = k}
ProdChoices == {f \in [Ids -> Ids \cup {NULL}] :
                   \A k \in Ids : f[k] \in (IF k = MaxId THEN {NULL, k} ELSE {k})}

MkDB(ref, usr, ord, prd) ==
    [users |-> {[id |-> k, referrer_id |-> ref[k]] : k \in Ids},
     orders |-> {[id |-> k, user_id |-> usr[k]] : k \in Ids},
     order_items |-> {[id |-> k, order_id |-> ord[k], product_id |-> prd[k]] : k \in Ids},
     products |-> {[id |-> k] : k \in Ids}]

DBs == {MkDB(ref, usr, ord, prd) :
            ref \in RefChoices, usr \in UpToChoices, ord \in UpToChoices, prd \in ProdChoices}

\* ----------------------------------------------------------------- state
VARIABLES
    db,               \* the source database: table -> set of rows
    schema,           \* ExtractionEngine.schema (SchemaGraph)
    config,           \* ExtractConfig
    pc,               \* position of the orchestrator in _do_extract
    seed_idx,         \* index of the seed being processed (1-based)
    records,          \* TraversalResult.records of the running traversal
    queue,            \* the BFS queue of traverse
    visited_up,       \* traverse's visited_up
    visited_down,     \* traverse's visited_down
    all_records,      \* _do_extract's all_records
    insert_order,     \* result of _topological_sort
    broken_fks,       \* result of _topological_sort (a list)
    tables_data,      \* _do_extract's tables_data: table -> set of rows
    deferred_updates, \* list of DeferredUpdate
    orphans,          \* ValidationResult.orphaned_records, as a set
    error,            \* the exception that left _do_extract, or "none"
    out_file,         \* the statements written to the output file
    stream_idx,       \* stream_to_file's position in insert_order (1-based)
    conn,             \* the adapter's connection: "none", "open", "closed"
    snapshot,         \* the snapshot transaction: "none", "active", "ended", "aborted"
    calls,            \* the adapter calls issued so far, in order
    interrupted       \* where a KeyboardInterrupt was raised, or "none"

travVars == <<records, queue, visited_up, visited_down>>
ioVars == <<out_file, stream_idx>>
connVars == <<conn, snapshot, calls, interrupted>>
vars == <<db, schema, config, pc, seed_idx, records, queue, visited_up, visited_down,
          all_records, insert_order, broken_fks, tables_data, deferred_updates,
          orphans, error, out_file, stream_idx, conn, snapshot, calls, interrupted>>

\* ------------------------------------------------------------ the adapter
\* Table.primary_key
primary_key(sch, table) == sch.tables[table].primary_key

\* PostgreSQLAdapter.fetch_fk_values: the distinct FK tuples of the rows
\* identified by source_pk_values, without those holding a NULL.
fetch_fk_values(data, sch, table, fk, source_pk_values) ==
    IF source_pk_values = {} \/ ~has_table(sch, table) THEN {}
    ELSE {v \in {TupleOf(row, fk.source_columns) :
                    row \in {r \in data[table] :
                                TupleOf(r, primary_key(sch, table)) \in source_pk_values}} :
             NULL \notin Range(v)}

\* PostgreSQLAdapter.fetch_referencing_pks: PKs of the rows of the FK's source
\* table whose FK columns equal one of target_pk_values.
fetch_referencing_pks(data, sch, fk, target_pk_values) ==
    IF target_pk_values = {} \/ ~has_table(sch, fk.source_table) THEN {}
    ELSE IF primary_key(sch, fk.source_table) = <<>> THEN {}
    ELSE {TupleOf(row, primary_key(sch, fk.source_table)) :
             row \in {r \in data[fk.source_table] :
                         TupleOf(r, fk.source_columns) \in target_pk_values}}

\* PostgreSQLAdapter.fetch_all_pks
fetch_all_pks(data, table, pk_columns) ==
    IF pk_columns = <<>> THEN {}
    ELSE {TupleOf(row, pk_columns) : row \in data[table]}

\* A fetch that returns every row of the table when the clause selects none
fetch_rows_or_all(data, table, column, where) ==
    IF \E row \in data[table] : row[column] \in where
    THEN SeqOf({row \in data[table] : row[column] \in where})
    ELSE SeqOf(data[table])

\* PostgreSQLAdapter.fetch_rows: the seed's WHERE clause selects the rows
\* whose value of column is in the set where
fetch_rows(data, table, column, where) ==
    SeqOf({row \in data[table] : row[column] \in where})

\* PostgreSQLAdapter.fetch_by_pk and fetch_by_pk_chunked on identities of
\* a table whose primary key is empty: the query is malformed
unfetchable(sch, table, pk_values) ==
    has_table(sch, table) /\ pk_values # {} /\ primary_key(sch, table) = <<>>

\* PostgreSQLAdapter.fetch_by_pk: the rows whose PK is one of pk_values
fetch_by_pk(data, table, pk_columns, pk_values) ==
    SeqOf({row \in data[table] : TupleOf(row, pk_columns) \in pk_values})

\* ---------------------------------------------------------- the traverser
\* TraversalResult.add_records, on the records dict
add_records(recs, table, pk_values) ==
    Put(recs, table, Get(recs, table, {}) \cup pk_values)

\* One queue entry of traverse
QItem(table, pks, depth, direction) ==
    [table |-> table, pks |-> pks, depth |-> depth, direction |-> direction]

\* The locals of traverse that _traverse_up and _traverse_down update
TravState(recs, vu, vd, q) ==
    [records |-> recs, visited_up |-> vu, visited_down |-> vd, queue |-> q]

\* The body of _traverse_up's loop for one parent edge
up_edge(data, sch, cfg, table, pks, depth, fk, st) ==
    LET parent_table == fk.target_table
        parent_pks == fetch_fk_values(data, sch, table, fk, pks)
        new_pks == parent_pks \ Get(st.visited_up, parent_table, {})
    IN  IF parent_table \in cfg.exclude_tables THEN st
        ELSE IF parent_pks = {} THEN st
        ELSE IF new_pks = {} THEN st
        ELSE [st EXCEPT
                !.visited_up = Put(@, parent_table, Get(@, parent_table, {}) \cup new_pks),
                !.records = add_records(@, parent_table, new_pks),
                !.queue = Append(@, QItem(parent_table, new_pks, depth + 1, "up"))]

\* An upward step that follows only the first parent edge of the list
traverse_up_first_edge(data, sch, cfg, table, pks, depth, parents, st) ==
    IF parents = <<>> THEN st
    ELSE up_edge(data, sch, cfg, table, pks, depth, Head(parents), st)

\* GraphTraverser._traverse_up: every parent edge of the table, in list order
RECURSIVE traverse_up(_, _, _, _, _, _, _, _)
traverse_up(data, sch, cfg, table, pks, depth, parents, st) ==
    IF parents = <<>> THEN st
    ELSE traverse_up(data, sch, cfg, table, pks, depth, Tail(parents),
                     up_edge(data, sch, cfg, table, pks, depth, Head(parents), st))

\* A downward step that does not schedule the upward traversal of the
\* children it finds: the closure of the result depends on that scheduling.
down_edge_without_up(data, sch, cfg, table, pks, depth, fk, st) ==
    LET child_table == fk.source_table
        child_pks == fetch_referencing_pks(data, sch, fk, pks)
        new_pks == child_pks \ Get(st.visited_down, child_table, {})
    IN  IF child_table \in cfg.exclude_tables \/ new_pks = {} THEN st
        ELSE [st EXCEPT
                !.visited_down = Put(@, child_table, Get(@, child_table, {}) \cup new_pks),
                !.records = add_records(@, child_table, new_pks),
                !.queue = Append(@, QItem(child_table, new_pks, depth + 1, "down"))]

\* The body of _traverse_down's loop for one child edge
down_edge(data, sch, cfg, table, pks, depth, fk, st) ==
    LET child_table == fk.source_table
        child_pks == fetch_referencing_pks(data, sch, fk, pks)
        new_pks == child_pks \ Get(st.visited_down, child_table, {})
        new_for_up == new_pks \ Get(st.visited_up, child_table, {})
        q1 == Append(st.queue, QItem(child_table, new_pks, depth + 1, "down"))
    IN  IF child_table \in cfg.exclude_tables THEN st
        ELSE IF child_pks = {} THEN st
        ELSE IF new_pks = {} THEN st
        ELSE [st EXCEPT
                !.visited_down = Put(@, child_table, Get(@, child_table, {}) \cup new_pks),
                !.records = add_records(@, child_table, new_pks),
                !.visited_up = Put(@, child_table, Get(@, child_table, {}) \cup new_for_up),
                !.queue = IF new_for_up # {}
                          THEN Append(q1, QItem(child_table, new_for_up, depth + 1, "up"))
                          ELSE q1]

\* GraphTraverser._traverse_down: every child edge of the table, in list order
RECURSIVE traverse_down(_, _, _, _, _, _, _, _)
traverse_down(data, sch, cfg, table, pks, depth, children, st) ==
    IF children = <<>> THEN st
    ELSE traverse_down(data, sch, cfg, table, pks, depth, Tail(children),
                       down_edge(data, sch, cfg, table, pks, depth, Head(children), st))

\* A depth test that skips no entry
depth_never_reached(item, cfg) == FALSE

\* A depth test that skips an entry in either direction
depth_reached_any_direction(item, cfg) == item.depth >= cfg.depth

\* The depth test of traverse's loop: only a "down" entry is skipped
depth_reached(item, cfg) == item.depth >= cfg.depth /\ item.direction = "down"

\* An iteration that leaves the dequeued item in the queue
traverse_iteration_requeue(data, sch, cfg, item, st) ==
    LET r == IF depth_reached(item, cfg) THEN st
             ELSE IF item.direction = "up"
             THEN traverse_up(data, sch, cfg, item.table, item.pks, item.depth,
                              get_parents(sch, item.table), st)
             ELSE traverse_down(data, sch, cfg, item.table, item.pks, item.depth,
                                get_children(sch, item.table), st)
    IN  [r EXCEPT !.queue = Append(@, item)]

\* One iteration of traverse's while loop on the dequeued item
traverse_iteration(data, sch, cfg, item, st) ==
    IF depth_reached(item, cfg) THEN st
    ELSE IF item.direction = "up"
    THEN traverse_up(data, sch, cfg, item.table, item.pks, item.depth,
                     get_parents(sch, item.table), st)
    ELSE traverse_down(data, sch, cfg, item.table, item.pks, item.depth,
                       get_children(sch, item.table), st)

\* A passthrough step that adds nothing
passthrough_table_skipped(data, sch, cfg, table, recs) == recs

\* A passthrough step that does not look at exclude_tables
passthrough_table_ignoring_exclude(data, sch, cfg, table, recs) ==
    IF ~has_table(sch, table) THEN recs
    ELSE IF primary_key(sch, table) = <<>> THEN recs
    ELSE add_records(recs, table, fetch_all_pks(data, table, primary_key(sch, table)))

\* The body of _process_passthrough_tables's loop for one table
passthrough_table(data, sch, cfg, table, recs) ==
    IF table \in cfg.exclude_tables THEN recs
    ELSE IF ~has_table(sch, table) THEN recs
    ELSE IF primary_key(sch, table) = <<>> THEN recs
    ELSE LET all_pks == fetch_all_pks(data, table, primary_key(sch, table))
         IN  IF all_pks = {} THEN recs ELSE add_records(recs, table, all_pks)

\* GraphTraverser._process_passthrough_tables; the tables' records do not
\* depend on each other, so the set's iteration order does not matter.
RECURSIVE process_passthrough_tables(_, _, _, _, _)
process_passthrough_tables(data, sch, cfg, tables, recs) ==
    IF tables = {} THEN recs
    ELSE LET t == CHOOSE x \in tables : TRUE
         IN  process_passthrough_tables(data, sch, cfg, tables \ {t},
                                        passthrough_table(data, sch, cfg, t, recs))


\* ------------------------------------------- cycle resolver and orderer
\* All orders in which a Python set (or a dict built from one) may be
\* iterated: the order depends on the strings' randomized hashes.
Perms(S) == {p \in [1 .. Cardinality(S) -> S] : Range(p) = S}

\* The members of S in the order ord lists them
Ordered(S, ord) == SelectSeq(ord, LAMBDA x : x \in S)

\* list.index
IndexOf(s, x) == CHOOSE i \in DOMAIN s : s[i] = x /\ \A j \in 1 .. (i - 1) : s[j] # x

\* _topological_sort's dependencies dict: table -> the tables it refers to
dependencies(sch, tables) ==
    [t \in tables |->
        {fk.target_table : fk \in {e \in Range(sch.edges) :
                                     e.source_table = t /\ e.target_table \in tables}}]

\* graphlib's TopologicalSorter.static_order: the tables layer by layer, a
\* table being ready once everything it depends on is done, each layer in
\* an order that depends on the iteration order of the dicts and sets. The
\* empty set stands for CycleError.
RECURSIVE static_order(_, _)
static_order(deps, done) ==
    LET remaining == (DOMAIN deps) \ done
        ready == {t \in remaining : deps[t] \subseteq done}
    IN  IF remaining = {} THEN {<<>>}
        ELSE IF ready = {} THEN {}
        ELSE {p \o rest : p \in Perms(ready), rest \in static_order(deps, done \cup ready)}

\* find_cycles_dfs: st holds cycles (a list) and visited (a set); the dict
\* and the neighbour sets are iterated in the order ord.
RECURSIVE dfs(_, _, _, _, _)
RECURSIVE dfs_neighbors(_, _, _, _, _)
dfs(deps, ord, node, rec_stack, st) ==
    IF node \in Range(rec_stack)
    THEN [st EXCEPT !.cycles =
            Append(@, SubSeq(rec_stack, IndexOf(rec_stack, node), Len(rec_stack)))]
    ELSE IF node \in st.visited THEN st
    ELSE dfs_neighbors(deps, ord, Ordered(Get(deps, node, {}), ord),
                       Append(rec_stack, node),
                       [st EXCEPT !.visited = @ \cup {node}])

dfs_neighbors(deps, ord, nbrs, rec_stack, st) ==
    IF nbrs = <<>> THEN st
    ELSE dfs_neighbors(deps, ord, Tail(nbrs), rec_stack,
                       dfs(deps, ord, Head(nbrs), rec_stack, st))

RECURSIVE dfs_roots(_, _, _, _)
dfs_roots(deps, ord, nodes, st) ==
    IF nodes = <<>> THEN st
    ELSE dfs_roots(deps, ord, Tail(nodes),
                   IF Head(nodes) \in st.visited THEN st
                   ELSE dfs(deps, ord, Head(nodes), <<>>, st))

find_cycles_dfs(deps, ord) ==
    dfs_roots(deps, ord, Ordered(DOMAIN deps, ord), [cycles |-> <<>>, visited |-> {}]).cycles

\* The directed edges of a cycle path: [A, B, C] is A -> B -> C -> A
cycle_edges(cycle) ==
    {<<cycle[i], cycle[(i % Len(cycle)) + 1]>> : i \in DOMAIN cycle}

\* identify_cycle_fks: the FKs of schema.edges on the cycle path, in list order
identify_cycle_fks(sch, cycle) ==
    SelectSeq(sch.edges,
              LAMBDA fk : <<fk.source_table, fk.target_table>> \in cycle_edges(cycle))

\* ForeignKey.is_self_referential
is_self_referential(fk) == fk.source_table = fk.target_table

\* A selection that takes the first FK of the cycle, nullable or not
select_first_fk_to_break(cycle_fks, cycle) ==
    IF cycle_fks = <<>> THEN <<>> ELSE <<cycle_fks[1]>>

\* select_nullable_fk_to_break: <<fk>>, or <<>> for None
select_nullable_fk_to_break(cycle_fks, cycle) ==
    LET nullable_fks == SelectSeq(cycle_fks, LAMBDA fk : fk.is_nullable)
        self_ref_fks == SelectSeq(nullable_fks, LAMBDA fk : is_self_referential(fk))
        inter_table_fks == SelectSeq(nullable_fks, LAMBDA fk : ~is_self_referential(fk))
        inter_single == SelectSeq(inter_table_fks, LAMBDA fk : Len(fk.source_columns) = 1)
        single_col_fks == SelectSeq(nullable_fks, LAMBDA fk : Len(fk.source_columns) = 1)
        fallback == IF single_col_fks # <<>> THEN <<single_col_fks[1]>>
                    ELSE <<nullable_fks[1]>>
    IN  IF nullable_fks = <<>> THEN <<>>
        ELSE IF Len(cycle) = 1
        THEN (IF self_ref_fks # <<>> THEN <<self_ref_fks[1]>> ELSE fallback)
        ELSE IF inter_table_fks # <<>>
        THEN (IF inter_single # <<>> THEN <<inter_single[1]>> ELSE <<inter_table_fks[1]>>)
        ELSE fallback

\* break_cycles_at_nullable_fks: raised is the ValueError of a cycle that
\* has no nullable FK; fks_to_break holds each chosen FK once.
RECURSIVE break_cycles(_, _, _)
break_cycles(sch, cycles, acc) ==
    IF cycles = <<>> THEN acc
    ELSE LET cycle == Head(cycles)
             cycle_fks == identify_cycle_fks(sch, cycle)
             nullable_fk == select_nullable_fk_to_break(cycle_fks, cycle)
         IN  IF nullable_fk = <<>>
             THEN [acc EXCEPT !.raised = TRUE, !.failed_cycle = cycle]
             ELSE break_cycles(sch, Tail(cycles),
                    [acc EXCEPT
                        !.fks_to_break = IF nullable_fk[1] \in Range(@) THEN @
                                         ELSE Append(@, nullable_fk[1]),
                        !.cycle_infos = Append(@, [tables |-> cycle,
                                                   fks_in_cycle |-> cycle_fks])])

break_cycles_at_nullable_fks(sch, deps, ord) ==
    break_cycles(sch, find_cycles_dfs(deps, ord),
                 [raised |-> FALSE, failed_cycle |-> <<>>,
                  fks_to_break |-> <<>>, cycle_infos |-> <<>>])

\* The removal of the broken FKs' edges: for each broken FK the target
\* table is discarded from the dependencies of its source table.
remove_broken(deps, fks_to_break) ==
    [t \in DOMAIN deps |->
        deps[t] \ {fk.target_table : fk \in {b \in Range(fks_to_break) : b.source_table = t}}]

\* ExtractionEngine._topological_sort: the set of its possible outcomes,
\* each with the error that leaves it ("none" when it returns).
topological_sort(sch, tables, ord) ==
    LET deps == dependencies(sch, tables)
        first == static_order(deps, {})
        broken == break_cycles_at_nullable_fks(sch, deps, ord)
        second == static_order(remove_broken(deps, broken.fks_to_break), {})
        Result(order, fks, infos, err) ==
            [insert_order |-> order, broken_fks |-> fks, cycle_infos |-> infos, error |-> err]
    IN  IF first # {} THEN {Result(o, <<>>, <<>>, "none") : o \in first}
        ELSE IF broken.raised THEN {Result(<<>>, <<>>, <<>>, "CircularReferenceError")}
        ELSE IF second = {} THEN {Result(<<>>, <<>>, <<>>, "CycleError")}
        ELSE {Result(o, broken.fks_to_break, broken.cycle_infos, "none") : o \in second}


\* ---------------------------------------------------------- the validator
\* ExtractionValidator._build_pk_index
build_pk_index(sch, tables) ==
    [t \in {x \in DOMAIN tables : has_table(sch, x)} |->
        {TupleOf(row, primary_key(sch, t)) : row \in Range(tables[t])}]

\* A lookup that asks only whether the parent table is in the result
has_parent_table(parent_table, fk_values, pk_index) ==
    parent_table \in DOMAIN pk_index

\* ExtractionValidator._has_parent_record
has_parent_record(parent_table, fk_values, pk_index) ==
    parent_table \in DOMAIN pk_index /\ fk_values \in pk_index[parent_table]

\* OrphanedRecord
OrphanedRecord(table, pk_values, fk, fk_values) ==
    [table |-> table, pk_values |-> pk_values, fk_name |-> fk.name,
     fk_values |-> fk_values, parent_table |-> fk.target_table]

\* The orphans validate finds in one row of one table
row_orphans(sch, table, row, broken, pk_index) ==
    {OrphanedRecord(table, TupleOf(row, primary_key(sch, table)), fk,
                    TupleOf(row, fk.source_columns)) :
        fk \in {e \in Range(get_parents(sch, table)) :
                  /\ e \notin Range(broken)
                  /\ NULL \notin Range(TupleOf(row, e.source_columns))
                  /\ ~has_parent_record(e.target_table,
                                        TupleOf(row, e.source_columns), pk_index)}}

\* ExtractionValidator.validate: the orphaned records of the result
validate(sch, tables, broken) ==
    LET pk_index == build_pk_index(sch, tables)
    IN  UNION {UNION {row_orphans(sch, t, row, broken, pk_index) : row \in Range(tables[t])} :
               t \in {x \in DOMAIN tables : has_table(sch, x)}}

\* -------------------------------------------------------- deferred updates
\* DeferredUpdate
DeferredUpdate(table, pk_columns, pk_values, fk_column, fk_value) ==
    [table |-> table, pk_columns |-> pk_columns, pk_values |-> pk_values,
     fk_column |-> fk_column, fk_value |-> fk_value]

\* build_deferred_updates, for one row and one broken FK: an update for
\* every FK column that the row holds with a value other than None
row_updates(pk_columns, fk, row) ==
    LET cols == SelectSeq(fk.source_columns,
                          LAMBDA c : c \in DOMAIN row /\ row[c] # NULL)
    IN  [i \in DOMAIN cols |->
            DeferredUpdate(fk.source_table, pk_columns, TupleOf(row, pk_columns),
                           cols[i], row[cols[i]])]

RECURSIVE rows_updates(_, _, _)
rows_updates(pk_columns, fk, rows) ==
    IF rows = <<>> THEN <<>>
    ELSE row_updates(pk_columns, fk, Head(rows)) \o rows_updates(pk_columns, fk, Tail(rows))

\* build_deferred_updates
RECURSIVE build_deferred_updates(_, _, _)
build_deferred_updates(fks_to_break, tables, sch) ==
    IF fks_to_break = <<>> THEN <<>>
    ELSE LET fk == Head(fks_to_break)
             rest == build_deferred_updates(Tail(fks_to_break), tables, sch)
         IN  IF fk.source_table \notin DOMAIN tables THEN rest
             ELSE IF ~has_table(sch, fk.source_table) THEN rest
             ELSE rows_updates(primary_key(sch, fk.source_table), fk,
                               tables[fk.source_table]) \o rest

\* ---------------------------------------------------------- the anonymizer
\* The patterns of _DEFAULT_ANONYMIZATION_PATTERNS and of
\* _SECURITY_NULL_PATTERNS that the lower-cased name of each column of the
\* model contains as a substring ("pattern in col_lower").
ColumnPatterns ==
    [id |-> {}, username |-> {"name", "username"}, manager_id |-> {},
     department_id |-> {}]

DEFAULT_ANONYMIZATION_PATTERNS == {"email", "name", "username", "ip"}

SECURITY_NULL_PATTERNS == {"password", "hash", "token", "session_id"}

\* DeterministicAnonymizer._is_foreign_key_column
is_foreign_key_column(sch, table, column) ==
    /\ has_table(sch, table)
    /\ \E fk \in Range(sch.tables[table].foreign_keys) : column \in Range(fk.source_columns)

\* DeterministicAnonymizer.should_anonymize
should_anonymize(sch, cfg, table, column) ==
    IF is_foreign_key_column(sch, table, column) THEN FALSE
    ELSE IF <<table, column>> \in cfg.redact_fields THEN TRUE
    ELSE ColumnPatterns[column] \cap DEFAULT_ANONYMIZATION_PATTERNS # {}

\* DeterministicAnonymizer.should_null
should_null(table, column) == ColumnPatterns[column] \cap SECURITY_NULL_PATTERNS # {}

\* The synthetic value Faker generates from the seed, the column and the
\* value: a function of the value that differs from every source value
fake(value, column) == value + 10

\* DeterministicAnonymizer.anonymize_value
anonymize_value(sch, cfg, value, table, column) ==
    IF value = NULL THEN NULL
    ELSE IF should_null(table, column) THEN NULL
    ELSE IF ~should_anonymize(sch, cfg, table, column) THEN value
    ELSE fake(value, column)

\* DeterministicAnonymizer.anonymize_row
anonymize_row(sch, cfg, table, row) ==
    [c \in DOMAIN row |-> anonymize_value(sch, cfg, row[c], table, c)]

\* ExtractionEngine._anonymize_table_data, applied when an anonymizer exists
anonymize_rows(sch, cfg, table, rows) ==
    IF cfg.anonymize \/ cfg.redact_fields # {}
    THEN [i \in DOMAIN rows |-> anonymize_row(sch, cfg, table, rows[i])]
    ELSE rows

\* ------------------------------------------------- the streaming emitter
\* One statement of the output file; row is the written row of an INSERT
\* and the DeferredUpdate of an UPDATE
Stmt(kind, table, row) == [kind |-> kind, table |-> table, row |-> row]

\* StreamingExtractionEngine._build_broken_fk_map
build_broken_fk_map(broken) ==
    [t \in {fk.source_table : fk \in Range(broken)} |->
        UNION {Range(fk.source_columns) : fk \in {b \in Range(broken) : b.source_table = t}}]

\* DatabaseAdapter.fetch_by_pk_chunked: the rows in chunks of chunk_size
RECURSIVE chunked(_, _)
chunked(rows, chunk_size) ==
    IF rows = <<>> THEN <<>>
    ELSE IF Len(rows) <= chunk_size THEN <<rows>>
    ELSE <<SubSeq(rows, 1, chunk_size)>>
            \o chunked(SubSeq(rows, chunk_size + 1, Len(rows)), chunk_size)

fetch_by_pk_chunked(data, table, pk_columns, pk_values, chunk_size) ==
    chunked(fetch_by_pk(data, table, pk_columns, pk_values), chunk_size)

\* SQLGenerator._generate_insert: the INSERT of a row, with NULL written
\* for the columns of null_columns
generate_insert(table, row, null_columns) ==
    Stmt("INSERT", table, [c \in DOMAIN row |-> IF c \in null_columns THEN NULL ELSE row[c]])

\* SQLGenerator._generate_deferred_update: the UPDATE of one DeferredUpdate
generate_deferred_update(update) == Stmt("UPDATE", update.table, update)

\* StreamingExtractionEngine._stream_table: every chunk is anonymized and
\* written row by row
RECURSIVE stream_chunks(_, _, _, _, _, _)
stream_chunks(f, sch, cfg, table, chunks, null_columns) ==
    IF chunks = <<>> THEN f
    ELSE LET chunk == anonymize_rows(sch, cfg, table, Head(chunks))
         IN  stream_chunks(f \o [i \in DOMAIN chunk |->
                                    generate_insert(table, chunk[i], null_columns)],
                           sch, cfg, table, Tail(chunks), null_columns)

stream_table(f, data, sch, cfg, table, pk_values, null_columns) ==
    stream_chunks(f, sch, cfg, table,
                  fetch_by_pk_chunked(data, table, primary_key(sch, table), pk_values,
                                      cfg.streaming_chunk_size),
                  null_columns)

\* StreamingExtractionEngine._write_header
write_header(f) == Append(f, Stmt("BEGIN", "", <<>>))

\* StreamingExtractionEngine._write_footer
write_footer(f) == Append(f, Stmt("COMMIT", "", <<>>))

\* An emitter that writes the deferred updates at the head of the file
write_deferred_updates_first(f, updates) ==
    [i \in DOMAIN updates |-> generate_deferred_update(updates[i])] \o f

\* StreamingExtractionEngine._write_deferred_updates
write_deferred_updates(f, updates) ==
    f \o [i \in DOMAIN updates |-> generate_deferred_update(updates[i])]

\* ExtractionEngine._should_use_streaming
should_use_streaming(cfg, total_rows) ==
    IF cfg.stream THEN TRUE
    ELSE IF total_rows >= cfg.streaming_threshold /\ cfg.output_file # "" THEN TRUE
    ELSE FALSE

\* sum(len(pks) for pks in all_records.values())
RECURSIVE total_rows_estimate(_)
total_rows_estimate(recs) ==
    IF DOMAIN recs = {} THEN 0
    ELSE LET t == CHOOSE x \in DOMAIN recs : TRUE
         IN  Cardinality(recs[t]) + total_rows_estimate([x \in (DOMAIN recs) \ {t} |-> recs[x]])

\* ------------------------------------------------- the extraction pipeline
\* The seeds of the model: one row or all rows of a table; a seed that
\* matches no row; a seed on a table that the schema does not have.
SeedSpec(table, column, where) == [table |-> table, column |-> column, where |-> where]

SeedSpecs ==
    {SeedSpec(t, "id", w) : t \in DOMAIN ShopTables, w \in {{k} : k \in Ids} \cup {Ids}}
        \cup {SeedSpec("users", "id", {}), SeedSpec("ghost", "id", {1})}

\* exclude_tables and passthrough_tables of the model's configurations
TableOptions ==
    {<<{}, {}>>, <<{"products"}, {}>>, <<{"users"}, {}>>,
     <<{}, {"products"}>>, <<{}, {"order_items"}>>, <<{"products"}, {"products"}>>}

\* ExtractConfig with its defaults
ExtractConfig(seeds, depth, direction, exclude_tables, passthrough_tables) ==
    [seeds |-> seeds, depth |-> depth, direction |-> direction,
     exclude_tables |-> exclude_tables, passthrough_tables |-> passthrough_tables,
     output_file |-> "out.sql", anonymize |-> FALSE, redact_fields |-> {},
     dry_run |-> FALSE, validate |-> TRUE, fail_on_validation_error |-> FALSE,
     stream |-> FALSE, streaming_threshold |-> 50000, streaming_chunk_size |-> 1000]

Configs ==
    {ExtractConfig(<<s>>, d, dir, o[1], o[2]) :
        s \in SeedSpecs, d \in 0 .. MaxDepth, dir \in {"up", "down", "both"},
        o \in TableOptions}

Init ==
    /\ db \in DBs
    /\ schema = ShopSchema
    /\ config \in Configs
    /\ pc = "seed"
    /\ seed_idx = 1
    /\ records = EmptyDict
    /\ queue = <<>>
    /\ visited_up = EmptyDict
    /\ visited_down = EmptyDict
    /\ all_records = EmptyDict
    /\ insert_order = <<>>
    /\ broken_fks = <<>>
    /\ tables_data = EmptyDict
    /\ deferred_updates = <<>>
    /\ orphans = {}
    /\ error = "none"
    /\ out_file = <<>>
    /\ stream_idx = 0
    /\ conn = "open"
    /\ snapshot = "active"
    /\ calls = <<>>
    /\ interrupted = "none"

\* _process_seed up to the start of traverse's loop: the seed is resolved
\* and the traversal state is set up.
ProcessSeed ==
    /\ pc = "seed"
    /\ seed_idx <= Len(config.seeds)
    /\ LET seed == config.seeds[seed_idx]
           seed_rows == fetch_rows(db, seed.table, seed.column, seed.where)
           seed_pks == {TupleOf(row, primary_key(schema, seed.table)) :
                           row \in Range(seed_rows)}
           up == IF config.direction \in {"up", "both"}
                 THEN <<QItem(seed.table, seed_pks, 0, "up")>> ELSE <<>>
           down == IF config.direction \in {"down", "both"}
                   THEN <<QItem(seed.table, seed_pks, 0, "down")>> ELSE <<>>
       IN  IF ~has_table(schema, seed.table)
           THEN /\ error' = "TableNotFoundError"
                /\ pc' = "raised"
                /\ UNCHANGED travVars
           ELSE IF seed_rows = <<>>
           THEN /\ error' = "NoRowsFoundError"
                /\ pc' = "raised"
                /\ UNCHANGED travVars
           ELSE /\ records' = add_records(EmptyDict, seed.table, seed_pks)
                /\ queue' = up \o down
                /\ visited_up' = Put(EmptyDict, seed.table, seed_pks)
                /\ visited_down' = Put(EmptyDict, seed.table, seed_pks)
                /\ pc' = "traverse"
                /\ UNCHANGED error
    /\ UNCHANGED <<db, schema, config, seed_idx, all_records, insert_order, broken_fks,
                   tables_data, deferred_updates, orphans,
                   ioVars, connVars>>

\* One iteration of traverse's while loop
TraverseStep ==
    /\ pc = "traverse"
    /\ queue # <<>>
    /\ LET st == traverse_iteration(db, schema, config, Head(queue),
                                    TravState(records, visited_up, visited_down, Tail(queue)))
       IN  /\ records' = st.records
           /\ visited_up' = st.visited_up
           /\ visited_down' = st.visited_down
           /\ queue' = st.queue
    /\ UNCHANGED <<db, schema, config, pc, seed_idx, all_records, insert_order, broken_fks,
                   tables_data, deferred_updates, orphans, error,
                   ioVars, connVars>>

\* dict.update of all_records with the records of one traversal
merge_records(all, recs) ==
    [t \in (DOMAIN all) \cup (DOMAIN recs) |-> Get(all, t, {}) \cup Get(recs, t, {})]

\* The end of traverse (the passthrough tables) and the merge of its
\* records into all_records by the seed loop of _do_extract
FinishTraverse ==
    /\ pc = "traverse"
    /\ queue = <<>>
    /\ LET recs == IF config.passthrough_tables # {}
                   THEN process_passthrough_tables(db, schema, config,
                                                   config.passthrough_tables, records)
                   ELSE records
       IN  all_records' = merge_records(all_records, recs)
    /\ seed_idx' = seed_idx + 1
    /\ pc' = IF seed_idx < Len(config.seeds) THEN "seed" ELSE "sort"
    /\ records' = EmptyDict
    /\ visited_up' = EmptyDict
    /\ visited_down' = EmptyDict
    /\ UNCHANGED <<db, schema, config, queue, insert_order, broken_fks,
                   tables_data, deferred_updates, orphans, error,
                   ioVars, connVars>>

\* A choice of the mode that streams whether or not there is an output file
after_sort_any_destination(cfg, recs) ==
    IF cfg.dry_run THEN [pc |-> "done", error |-> "none"]
    ELSE IF cfg.stream THEN [pc |-> "stream", error |-> "none"]
    ELSE [pc |-> "fetch", error |-> "none"]

\* The step of _do_extract that follows a successful sort: the return of a
\* dry run, the choice between streaming and in-memory mode
after_sort(cfg, recs) ==
    IF cfg.dry_run THEN [pc |-> "done", error |-> "none"]
    ELSE IF should_use_streaming(cfg, total_rows_estimate(recs))
    THEN (IF cfg.output_file = "" THEN [pc |-> "raised", error |-> "ValueError"]
          ELSE [pc |-> "stream", error |-> "none"])
    ELSE [pc |-> "fetch", error |-> "none"]

\* _topological_sort as _do_extract calls it, and the choice of the mode;
\* an error leaves _do_extract
TopologicalSort ==
    /\ pc = "sort"
    /\ \E ord \in Perms(DOMAIN all_records) :
         \E r \in topological_sort(schema, DOMAIN all_records, ord) :
            /\ insert_order' = r.insert_order
            /\ broken_fks' = r.broken_fks
            /\ error' = IF r.error = "none" THEN after_sort(config, all_records).error
                         ELSE r.error
            /\ pc' = IF r.error = "none" THEN after_sort(config, all_records).pc
                      ELSE "raised"
    /\ UNCHANGED <<db, schema, config, seed_idx, travVars, all_records,
                   tables_data, deferred_updates, orphans,
                   ioVars, connVars>>

\* The fetch loop of _do_extract (in-memory mode).  For identities of a
\* table without primary key fetch_by_pk builds a query with the empty
\* condition "()", which the database rejects: ExtractionError.
FetchData ==
    /\ pc = "fetch"
    /\ IF \E t \in DOMAIN all_records : unfetchable(schema, t, all_records[t])
       THEN /\ error' = "ExtractionError"
            /\ pc' = "raised"
            /\ UNCHANGED tables_data
       ELSE /\ tables_data' =
                 [t \in {x \in DOMAIN all_records :
                            all_records[x] # {} /\ has_table(schema, x)} |->
                     anonymize_rows(schema, config, t,
                                    fetch_by_pk(db, t, primary_key(schema, t),
                                                all_records[t]))]
            /\ pc' = "deferred"
            /\ UNCHANGED error
    /\ UNCHANGED <<db, schema, config, seed_idx, travVars, all_records, insert_order,
                   broken_fks, deferred_updates, orphans,
                   ioVars, connVars>>

\* The deferred updates of _do_extract
BuildDeferredUpdates ==
    /\ pc = "deferred"
    /\ deferred_updates' = IF broken_fks # <<>>
                           THEN build_deferred_updates(broken_fks, tables_data, schema)
                           ELSE <<>>
    /\ pc' = "validate"
    /\ UNCHANGED <<db, schema, config, seed_idx, travVars, all_records, insert_order,
                   broken_fks, tables_data, orphans, error,
                   ioVars, connVars>>

\* A validation that reports the orphans it finds and always returns
ValidateWarnOnly ==
    /\ pc = "validate"
    /\ orphans' = IF config.validate THEN validate(schema, tables_data, broken_fks) ELSE {}
    /\ pc' = "done"
    /\ UNCHANGED <<db, schema, config, seed_idx, travVars, all_records, insert_order,
                   broken_fks, tables_data, deferred_updates, error,
                   ioVars, connVars>>

\* The validation of _do_extract and its return
Validate ==
    /\ pc = "validate"
    /\ LET found == IF config.validate THEN validate(schema, tables_data, broken_fks) ELSE {}
       IN  /\ orphans' = found
           /\ IF found # {} /\ config.fail_on_validation_error
              THEN error' = "ExtractionError" /\ pc' = "raised"
              ELSE error' = error /\ pc' = "done"
    /\ UNCHANGED <<db, schema, config, seed_idx, travVars, all_records, insert_order,
                   broken_fks, tables_data, deferred_updates,
                   ioVars, connVars>>

Next ==
    \/ ProcessSeed
    \/ TraverseStep
    \/ FinishTraverse
    \/ TopologicalSort
    \/ FetchData
    \/ BuildDeferredUpdates
    \/ Validate

Spec == Init /\ [][Next]_vars

\* ------------------------------------------------- closure of the result
\* The rows of a table in the result
RowsOf(t) == IF t \in DOMAIN tables_data THEN Range(tables_data[t]) ELSE {}

\* The row identities <<table, primary key>> of the result
OutputIds ==
    UNION {{<<t, TupleOf(row, primary_key(schema, t))>> : row \in RowsOf(t)} :
           t \in DOMAIN tables_data}

\* The row identities the seeds select
SeedIds ==
    UNION {{<<config.seeds[i].table, <<k>>>> : k \in config.seeds[i].where} :
           i \in DOMAIN config.seeds}

\* Every non-null reference of a result row along a non-broken FK is to a
\* row of the result
ReferentiallyClosed ==
    \A fk \in Range(schema.edges) \ Range(broken_fks) :
        \A row \in RowsOf(fk.source_table) :
            NULL \notin Range(TupleOf(row, fk.source_columns))
                => \E parent \in RowsOf(fk.target_table) :
                      TupleOf(parent, primary_key(schema, fk.target_table))
                          = TupleOf(row, fk.source_columns)

\* The rows that the rows of S refer to in the source database
ParentIds(S) ==
    UNION {{<<fk.target_table, TupleOf(r, fk.source_columns)>> :
              r \in {x \in db[fk.source_table] :
                       /\ <<fk.source_table, TupleOf(x, primary_key(schema, fk.source_table))>> \in S
                       /\ NULL \notin Range(TupleOf(x, fk.source_columns))}} :
           fk \in Range(schema.edges)}

\* S with everything reachable from it along parent edges
RECURSIVE UpClosure(_)
UpClosure(S) ==
    LET n == S \cup ParentIds(S) IN IF n = S THEN S ELSE UpClosure(n)

Unrestricted == config.exclude_tables = {} /\ config.passthrough_tables = {}

C6_DepthZeroOnlySeeds ==
    (pc = "done" /\ config.depth = 0 /\ config.direction \in {"up", "both"} /\ Unrestricted)
        => OutputIds = SeedIds

\* ------------------------------------------ the orderer on cyclic schemas
\* Schemas of three tables with up to MaxFks single-column foreign keys, in
\* every order of schema.edges, nullable or NOT NULL; several foreign keys
\* may join the same two tables.
SortTables == {"A", "B", "C"}

SortEdges ==
    {<<"A", "B">>, <<"B", "A">>, <<"B", "C">>, <<"C", "A">>, <<"A", "C">>, <<"A", "A">>}

SortFk(i, e, nullable) ==
    FK("fk_" \o ToString(i), e[1], <<"ref_" \o ToString(i)>>, e[2], <<"id">>, nullable)

SortSchema(n, f) ==
    [tables |-> [t \in SortTables |-> TableInfo(<<"id">>)],
     edges |-> [i \in 1 .. n |-> SortFk(i, f[i][1], f[i][2])],
     virtual_edges |-> <<>>]

InitSort ==
    /\ db = EmptyDict
    /\ \E n \in 1 .. MaxFks : \E f \in [1 .. n -> SortEdges \X BOOLEAN] :
          schema = SortSchema(n, f)
    /\ config = ExtractConfig(<<>>, 0, "both", {}, {})
    /\ pc = "sort"
    /\ seed_idx = 1
    /\ records = EmptyDict
    /\ queue = <<>>
    /\ visited_up = EmptyDict
    /\ visited_down = EmptyDict
    /\ \E tables \in {SortTables, {"A", "B"}} :
          all_records = [t \in tables |-> {<<1>>}]
    /\ insert_order = <<>>
    /\ broken_fks = <<>>
    /\ tables_data = EmptyDict
    /\ deferred_updates = <<>>
    /\ orphans = {}
    /\ error = "none"
    /\ out_file = <<>>
    /\ stream_idx = 0
    /\ conn = "open"
    /\ snapshot = "active"
    /\ calls = <<>>
    /\ interrupted = "none"

NextSort == TopologicalSort

SpecSort == InitSort /\ [][NextSort]_vars

\* The foreign keys between tables of the RecordSet
EdgesWithin == {fk \in Range(schema.edges) :
                   fk.source_table \in DOMAIN all_records
                       /\ fk.target_table \in DOMAIN all_records}

\* The simple cycles of the dependency graph, as table paths
SimpleCycles ==
    LET deps == dependencies(schema, DOMAIN all_records)
    IN  {c \in UNION {[1 .. n -> DOMAIN all_records] : n \in 1 .. Cardinality(DOMAIN all_records)} :
            /\ \A i, j \in DOMAIN c : i # j => c[i] # c[j]
            /\ \A e \in cycle_edges(c) : e[2] \in deps[e[1]]}

\* C2: in insert_order the target table of every foreign key that is not
\* broken and joins two different tables of the order precedes the source
\* table; this is required of each such key, also when another key between
\* the same two tables was broken.
C2_TopologicalCorrectness ==
    pc = "fetch" =>
        \A fk \in EdgesWithin \ Range(broken_fks) :
            fk.source_table # fk.target_table
                => IndexOf(insert_order, fk.target_table)
                      < IndexOf(insert_order, fk.source_table)

\* C3: whenever cycle resolution does not raise CircularReferenceError,
\* every cycle of the dependency graph holds a broken FK, so the second
\* topological sort succeeds and yields insert_order.
C3_BrokenFkDiscipline ==
    (pc # "sort" /\ error # "CircularReferenceError") =>
        /\ error = "none"
        /\ Range(insert_order) = DOMAIN all_records
        /\ \A c \in SimpleCycles :
              \E fk \in Range(broken_fks) :
                 <<fk.source_table, fk.target_table>> \in cycle_edges(c)

\* C7: if the dependency graph has a cycle with no nullable FK candidate,
\* the sort fails with CircularReferenceError: no other error escapes and
\* no insert_order is produced.
C7_UnbreakableCycleFails ==
    (pc # "sort" /\ \E c \in SimpleCycles :
                       select_nullable_fk_to_break(identify_cycle_fks(schema, c), c) = <<>>)
        => (error = "CircularReferenceError" /\ insert_order = <<>>)

\* ------------------------------------ streaming extraction of cyclic data
\* The departments and employees of the integration tests: a department has
\* a manager, an employee a department and a manager, every reference is
\* nullable.  The primary key of employees is the column id or the column
\* username.
fk_dept_manager(pk, nullable) ==
    FK("fk_dept_manager", "departments", <<"manager_id">>, "employees", <<pk>>, nullable)
fk_emp_dept(nullable) ==
    FK("fk_emp_dept", "employees", <<"department_id">>, "departments", <<"id">>, nullable)
fk_emp_manager(pk) ==
    FK("fk_emp_manager", "employees", <<"manager_id">>, "employees", <<pk>>, TRUE)

\* With nullable = FALSE the two references between the tables are NOT NULL
\* (the cyclic pair of the specification's scenario 4)
OrgSchema(pk, nullable) ==
    [tables |-> [departments |-> TableInfo(<<"id">>), employees |-> TableInfo(<<pk>>)],
     edges |-> <<fk_dept_manager(pk, nullable), fk_emp_dept(nullable), fk_emp_manager(pk)>>,
     virtual_edges |-> <<>>]

\* Employee k is managed by its cyclic successor (the first and the last
\* possibly by no one) and works in department k; department k is managed
\* by employee k; the last employee may have no department and the last
\* department no manager.
OrgDB(pk, mgr, dept, dmgr) ==
    [employees |-> {(pk :> k) @@ [manager_id |-> mgr[k], department_id |-> dept[k]] :
                       k \in Ids},
     departments |-> {[id |-> k, manager_id |-> dmgr[k]] : k \in Ids}]

\* The seeds of a streaming extraction
OrgSeeds(pk) ==
    {SeedSpec("employees", pk, w) : w \in {{k} : k \in Ids} \cup {Ids}}
        \cup {SeedSpec("departments", "id", {k}) : k \in Ids}

\* ExtractConfig of a streaming extraction (--stream --out-file)
StreamConfig(seed, depth, direction, anonymize, chunk_size) ==
    [ExtractConfig(<<seed>>, depth, direction, {}, {}) EXCEPT
        !.stream = TRUE, !.anonymize = anonymize, !.streaming_chunk_size = chunk_size]

InitEmit ==
    /\ \E pk \in {"id", "username"} :
          /\ schema = OrgSchema(pk, TRUE)
          /\ \E mgr \in RefChoices, dept \in ProdChoices, dmgr \in ProdChoices :
                db = OrgDB(pk, mgr, dept, dmgr)
          /\ \E seed \in OrgSeeds(pk), depth \in {0, MaxDepth},
                direction \in {"up", "both"}, anonymize \in BOOLEAN,
                chunk_size \in 1 .. MaxChunk :
                config = StreamConfig(seed, depth, direction, anonymize, chunk_size)
    /\ pc = "seed"
    /\ seed_idx = 1
    /\ records = EmptyDict
    /\ queue = <<>>
    /\ visited_up = EmptyDict
    /\ visited_down = EmptyDict
    /\ all_records = EmptyDict
    /\ insert_order = <<>>
    /\ broken_fks = <<>>
    /\ tables_data = EmptyDict
    /\ deferred_updates = <<>>
    /\ orphans = {}
    /\ error = "none"
    /\ out_file = <<>>
    /\ stream_idx = 0
    /\ conn = "open"
    /\ snapshot = "active"
    /\ calls = <<>>
    /\ interrupted = "none"

\* _do_streaming_extract up to the call of stream_to_file: the rows of the
\* source tables of the broken foreign keys are fetched and the deferred
\* updates are built from them
DoStreamingExtract ==
    /\ pc = "stream"
    /\ LET temp_data ==
             [t \in {fk.source_table : fk \in Range(broken_fks)} \cap DOMAIN all_records |->
                 fetch_by_pk(db, t, primary_key(schema, t), all_records[t])]
       IN  deferred_updates' = IF broken_fks # <<>>
                               THEN build_deferred_updates(broken_fks, temp_data, schema)
                               ELSE <<>>
    /\ pc' = "stream_header"
    /\ UNCHANGED <<db, schema, config, seed_idx, travVars, all_records, insert_order,
                   broken_fks, tables_data, orphans, error, ioVars, connVars>>

\* stream_to_file: the header
StreamHeader ==
    /\ pc = "stream_header"
    /\ out_file' = write_header(<<>>)
    /\ stream_idx' = 1
    /\ pc' = "stream_tables"
    /\ UNCHANGED <<db, schema, config, seed_idx, travVars, all_records, insert_order,
                   broken_fks, tables_data, deferred_updates, orphans, error, connVars>>

\* stream_to_file: one iteration of the loop over insert_order; an
\* ExtractionError of fetch_by_pk_chunked leaves stream_to_file
StreamTable ==
    /\ pc = "stream_tables"
    /\ stream_idx <= Len(insert_order)
    /\ LET table == insert_order[stream_idx]
           broken_fk_cols == build_broken_fk_map(broken_fks)
       IN  IF table \in DOMAIN all_records /\ unfetchable(schema, table, all_records[table])
           THEN /\ error' = "ExtractionError"
                /\ pc' = "raised"
                /\ UNCHANGED <<out_file, stream_idx>>
           ELSE /\ out_file' =
                     IF table \notin DOMAIN all_records THEN out_file
                     ELSE IF all_records[table] = {} THEN out_file
                     ELSE IF ~has_table(schema, table) THEN out_file
                     ELSE stream_table(out_file, db, schema, config, table,
                                       all_records[table], Get(broken_fk_cols, table, {}))
                /\ stream_idx' = stream_idx + 1
                /\ UNCHANGED <<pc, error>>
    /\ UNCHANGED <<db, schema, config, seed_idx, travVars, all_records, insert_order,
                   broken_fks, tables_data, deferred_updates, orphans, connVars>>

\* stream_to_file: the deferred updates, the footer and the return
StreamFooter ==
    /\ pc = "stream_tables"
    /\ stream_idx > Len(insert_order)
    /\ out_file' = write_footer(IF deferred_updates # <<>>
                                THEN write_deferred_updates(out_file, deferred_updates)
                                ELSE out_file)
    /\ pc' = "done"
    /\ UNCHANGED <<db, schema, config, seed_idx, travVars, all_records, insert_order,
                   broken_fks, tables_data, deferred_updates, orphans, error, stream_idx,
                   connVars>>

NextEmit ==
    \/ ProcessSeed
    \/ TraverseStep
    \/ FinishTraverse
    \/ TopologicalSort
    \/ DoStreamingExtract
    \/ StreamHeader
    \/ StreamTable
    \/ StreamFooter

SpecEmit == InitEmit /\ [][NextEmit]_vars

\* The INSERT statements of the output file that write the row of u
InsertsOf(u) ==
    {i \in DOMAIN out_file :
        /\ out_file[i].kind = "INSERT"
        /\ out_file[i].table = u.table
        /\ TupleOf(out_file[i].row, u.pk_columns) = u.pk_values}

\* C4: when a streaming extraction has returned, for every deferred update
\* u exactly one INSERT of the output file writes a row of u.table with the
\* primary key u.pk_values, and that INSERT writes NULL for u.fk_column.
C4_DeferredUpdatesMatch ==
    pc = "done" =>
        \A u \in Range(deferred_updates) :
            /\ Cardinality(InsertsOf(u)) = 1
            /\ \A i \in InsertsOf(u) : out_file[i].row[u.fk_column] = NULL

KindIs(i, kind) == out_file[i].kind = kind

\* The tables of the INSERT statements in the order of their first INSERT
RECURSIVE InsertGroups(_, _)
InsertGroups(i, acc) ==
    IF i > Len(out_file) THEN acc
    ELSE IF KindIs(i, "INSERT")
            /\ (acc = <<>> \/ acc[Len(acc)] # out_file[i].table)
    THEN InsertGroups(i + 1, Append(acc, out_file[i].table))
    ELSE InsertGroups(i + 1, acc)

\* C10: in the file of a streaming extraction that has returned, BEGIN is
\* the first statement and precedes every INSERT, the INSERTs are grouped
\* by table and the groups follow insert_order, every deferred UPDATE is
\* written (once, in the order of deferred_updates) after the last INSERT,
\* and COMMIT is the last statement, after the last UPDATE.
C10_EmissionOrder ==
    pc = "done" =>
        LET n == Len(out_file)
            ins == {i \in 1 .. n : KindIs(i, "INSERT")}
            upd == {i \in 1 .. n : KindIs(i, "UPDATE")}
        IN  /\ n >= 2
            /\ KindIs(1, "BEGIN") /\ KindIs(n, "COMMIT")
            /\ \A i \in 2 .. (n - 1) : i \in ins \cup upd
            /\ \A i \in ins, j \in upd : i < j
            /\ InsertGroups(1, <<>>) =
                 SelectSeq(insert_order,
                           LAMBDA t : t \in DOMAIN all_records /\ all_records[t] # {})
            /\ [k \in 1 .. Cardinality(upd) |-> out_file[n - 1 - Cardinality(upd) + k].row]
                 = deferred_updates

\* C10 witness: a returned extraction of two tables with a deferred UPDATE
\* and a table whose rows arrived in several chunks.
C10_Witness ==
    /\ pc = "done"
    /\ Cardinality({t \in DOMAIN all_records : all_records[t] # {}}) >= 2
    /\ deferred_updates # <<>>
    /\ \E t \in DOMAIN all_records :
          Cardinality(all_records[t]) > config.streaming_chunk_size

\* ------------------------------------------ the orchestrator's exit paths
\* The exception classes of exceptions.py
DbsliceErrors ==
    {"ConnectionError", "InvalidSeedError", "InsecureWhereClauseError",
     "TableNotFoundError", "ColumnNotFoundError", "NoRowsFoundError",
     "CircularReferenceError", "UnsupportedDatabaseError", "InvalidURLError",
     "SchemaIntrospectionError", "ExtractionError"}

\* The positions of _do_extract, the body of "with snapshot_transaction()"
BodyPositions ==
    {"get_schema", "seed", "traverse", "sort", "fetch", "deferred", "validate",
     "stream", "stream_header", "stream_tables"}

\* The positions of _do_extract at which an adapter call or a write to
\* the output file can raise
AdapterSteps == {"get_schema", "seed", "traverse", "fetch", "stream", "stream_tables"}

\* The positions at which end_snapshot or close is the next call
CleanupPositions == {"done", "raised", "close"}

FinalPositions == {"returned", "propagated"}

\* What _do_extract and the emitter modify
pipelineVars ==
    <<seed_idx, travVars, all_records, insert_order, broken_fks, tables_data,
      deferred_updates, orphans, ioVars>>

\* A connection on which close has no effect
keep_open(c) == c

\* PostgreSQLAdapter.close
close(c) == IF c = "open" THEN "closed" ELSE c

\* A signal that is ignored: control stays where it is
interrupt_ignored(position) == position

\* Where control goes when a KeyboardInterrupt is raised at a position of
\* extract: "except Exception" does not catch it; raised in begin_snapshot
\* it leaves snapshot_transaction before its try, so that only the finally
\* of extract runs; raised in the body of the with it reaches the finally
\* of snapshot_transaction.
interrupt_target(position) ==
    IF position = "begin_snapshot" THEN "close" ELSE "raised"

\* The configurations of the exit-path model: in-memory, streaming with and
\* without an output file, dry run; seeds that match rows, a seed that
\* matches none and a seed on an unknown table.
CleanupConfigs ==
    {[ExtractConfig(<<seed>>, MaxDepth, "both", {}, {}) EXCEPT
         !.stream = m[1], !.dry_run = m[2], !.output_file = m[3],
         !.streaming_chunk_size = MaxChunk] :
        seed \in OrgSeeds("id")
                    \cup {SeedSpec("employees", "id", {}), SeedSpec("ghost", "id", {1})},
        m \in {<<FALSE, FALSE, "out.sql">>, <<TRUE, FALSE, "out.sql">>,
               <<TRUE, FALSE, "">>, <<FALSE, TRUE, "out.sql">>}}

InitCleanup ==
    /\ \E nullable \in BOOLEAN :
          /\ schema = OrgSchema("id", nullable)
          /\ \E mgr \in RefChoices, dept \in ProdChoices, dmgr \in ProdChoices :
                /\ nullable \/ (NULL \notin Range(dept) /\ NULL \notin Range(dmgr))
                /\ db = OrgDB("id", mgr, dept, dmgr)
    /\ config \in CleanupConfigs
    /\ pc = "connect"
    /\ seed_idx = 1
    /\ records = EmptyDict
    /\ queue = <<>>
    /\ visited_up = EmptyDict
    /\ visited_down = EmptyDict
    /\ all_records = EmptyDict
    /\ insert_order = <<>>
    /\ broken_fks = <<>>
    /\ tables_data = EmptyDict
    /\ deferred_updates = <<>>
    /\ orphans = {}
    /\ error = "none"
    /\ out_file = <<>>
    /\ stream_idx = 0
    /\ conn = "none"
    /\ snapshot = "none"
    /\ calls = <<>>
    /\ interrupted = "none"

\* adapter.connect in the try of extract: psycopg2.connect succeeds, or it
\* raises and connect raises ConnectionError with no connection made
Connect ==
    /\ pc = "connect"
    /\ calls' = Append(calls, "connect")
    /\ \/ conn' = "open" /\ pc' = "begin_snapshot" /\ UNCHANGED error
       \/ conn' = conn /\ pc' = "close" /\ error' = "ConnectionError"
    /\ UNCHANGED <<db, schema, config, pipelineVars, snapshot, interrupted>>

\* begin_snapshot at the head of snapshot_transaction, before its try: when
\* it raises, end_snapshot is not called
BeginSnapshot ==
    /\ pc = "begin_snapshot"
    /\ calls' = Append(calls, "begin_snapshot")
    /\ \/ snapshot' = "active" /\ pc' = "get_schema" /\ UNCHANGED error
       \/ snapshot' = snapshot /\ pc' = "close" /\ error' = "DatabaseError"
    /\ UNCHANGED <<db, schema, config, pipelineVars, conn, interrupted>>

\* adapter.get_schema at the head of _do_extract
GetSchema ==
    /\ pc = "get_schema"
    /\ calls' = Append(calls, "get_schema")
    /\ pc' = "seed"
    /\ UNCHANGED <<db, schema, config, pipelineVars, error, conn, snapshot, interrupted>>

\* An adapter call of _do_extract, or a write of the emitter, raises
StepFails ==
    /\ pc \in AdapterSteps
    /\ error' = "DatabaseError"
    /\ pc' = "raised"
    /\ UNCHANGED <<db, schema, config, pipelineVars, connVars>>

\* The finally of snapshot_transaction: end_snapshot rolls back, or the
\* rollback raises
EndSnapshot ==
    /\ pc \in {"done", "raised"}
    /\ calls' = Append(calls, "end_snapshot")
    /\ \/ snapshot' = "ended" /\ UNCHANGED error
       \/ snapshot' = "rollback_failed" /\ error' = "DatabaseError"
    /\ pc' = "close"
    /\ UNCHANGED <<db, schema, config, pipelineVars, conn, interrupted>>

\* The finally of extract, and the return or the raise to the caller
Close ==
    /\ pc = "close"
    /\ calls' = Append(calls, "close")
    /\ conn' = close(conn)
    /\ pc' = IF error = "none" THEN "returned" ELSE "propagated"
    /\ UNCHANGED <<db, schema, config, pipelineVars, error, snapshot, interrupted>>

\* A KeyboardInterrupt (Ctrl-C) is raised in the thread of extract, once,
\* after the connection has been made.  Raised in begin_snapshot, in
\* end_snapshot or in close, the interrupted call may or may not have taken
\* effect.
Interrupt ==
    /\ interrupted = "none"
    /\ pc \in {"begin_snapshot"} \cup BodyPositions \cup CleanupPositions
    /\ interrupted' = pc
    /\ error' = "KeyboardInterrupt"
    /\ CASE pc = "begin_snapshot" ->
              /\ calls' = Append(calls, "begin_snapshot")
              /\ snapshot' \in {"none", "active"}
              /\ pc' = interrupt_target(pc)
              /\ UNCHANGED conn
         [] pc \in BodyPositions ->
              /\ pc' = interrupt_target(pc)
              /\ UNCHANGED <<conn, snapshot, calls>>
         [] pc \in {"done", "raised"} ->
              /\ calls' = Append(calls, "end_snapshot")
              /\ snapshot' \in {"active", "ended"}
              /\ pc' = "close"
              /\ UNCHANGED conn
         [] pc = "close" ->
              /\ calls' = Append(calls, "close")
              /\ conn' \in {conn, close(conn)}
              /\ pc' = "propagated"
              /\ UNCHANGED snapshot
    /\ UNCHANGED <<db, schema, config, pipelineVars>>

NextCleanup ==
    \/ Connect
    \/ BeginSnapshot
    \/ GetSchema
    \/ ProcessSeed
    \/ TraverseStep
    \/ FinishTraverse
    \/ TopologicalSort
    \/ FetchData
    \/ BuildDeferredUpdates
    \/ Validate
    \/ DoStreamingExtract
    \/ StreamHeader
    \/ StreamTable
    \/ StreamFooter
    \/ StepFails
    \/ EndSnapshot
    \/ Close
    \/ Interrupt

SpecCleanup == InitCleanup /\ [][NextCleanup]_vars

\* The with-body of extract was entered: begin_snapshot returned
BodyEntered == "get_schema" \in Range(calls) \/ interrupted \in BodyPositions

LastCalls(n) == SubSeq(calls, Len(calls) - n + 1, Len(calls))

generate(tables, order, broken, updates) ==
    LET cols == build_broken_fk_map(broken)
        ins(t) == IF t \in DOMAIN tables
                  THEN [i \in DOMAIN tables[t] |->
                           generate_insert(t, tables[t][i], Get(cols, t, {}))]
                  ELSE <<>>
        RECURSIVE all(_)
        all(i) == IF i > Len(order) THEN <<>> ELSE ins(order[i]) \o all(i + 1)
        body == write_header(<<>>) \o all(1)
    IN  write_footer(IF updates # <<>> THEN write_deferred_updates(body, updates) ELSE body)

\* The configurations of the runs: one seed or two, of which the second
\* may fail; a seed on the table audit_log, which has no primary key;
\* in-memory, streaming and dry-run mode, with and without output file;
\* a threshold within reach of the row counts or the default; redaction of
\* a foreign-key column.
RunConfigs ==
    LET good == SeedSpec("employees", "id", {1})
        bad == {SeedSpec("employees", "id", {}), SeedSpec("ghost", "id", {1})}
        seeds == {<<sd>> : sd \in OrgSeeds("id") \cup bad
                                    \cup {SeedSpec("audit_log", "note", {1})}}
                    \cup {<<good, sd>> : sd \in bad \cup {SeedSpec("departments", "id", {MaxId})}}
        modes == {<<FALSE, FALSE, "out.sql">>, <<FALSE, FALSE, "">>, <<TRUE, FALSE, "out.sql">>,
                  <<TRUE, FALSE, "">>, <<FALSE, TRUE, "out.sql">>}
    IN  {[ExtractConfig(sds, MaxDepth, dir, {}, {}) EXCEPT
             !.stream = m[1], !.dry_run = m[2], !.output_file = m[3],
             !.streaming_threshold = IF low THEN MaxId ELSE @,
             !.streaming_chunk_size = MaxChunk,
             !.fail_on_validation_error = fail,
             !.redact_fields = redact] :
            sds \in seeds, dir \in {"up", "down"}, m \in modes, low \in BOOLEAN,
            fail \in BOOLEAN, redact \in {{}, {<<"employees", "manager_id">>}}}

InitRun ==
    /\ schema = [OrgSchema("id", TRUE) EXCEPT
                    !.tables = @ @@ [audit_log |-> TableInfo(<<>>)]]
    /\ \E mgr \in RefChoices, dept \in ProdChoices, dmgr \in ProdChoices :
          db = OrgDB("id", mgr, dept, dmgr) @@ [audit_log |-> {[note |-> k] : k \in Ids}]
    /\ config \in RunConfigs
    /\ pc = "seed"
    /\ seed_idx = 1
    /\ records = EmptyDict
    /\ queue = <<>>
    /\ visited_up = EmptyDict
    /\ visited_down = EmptyDict
    /\ all_records = EmptyDict
    /\ insert_order = <<>>
    /\ broken_fks = <<>>
    /\ tables_data = EmptyDict
    /\ deferred_updates = <<>>
    /\ orphans = {}
    /\ error = "none"
    /\ out_file = <<>>
    /\ stream_idx = 0
    /\ conn = "open"
    /\ snapshot = "active"
    /\ calls = <<>>
    /\ interrupted = "none"

\* The command after extract has returned (_handle_output_format,
\* _generate_and_output_sql): the SQL of result.tables is generated and
\* written to the output file, or to stdout when there is none; out_file
\* stands for either.  An exception of extract ends the command before.
GenerateAndOutputSql ==
    /\ pc = "done"
    /\ out_file' = generate(tables_data, insert_order, broken_fks, deferred_updates)
    /\ pc' = "written"
    /\ UNCHANGED <<db, schema, config, seed_idx, travVars, all_records, insert_order,
                   broken_fks, tables_data, deferred_updates, orphans, error, stream_idx,
                   connVars>>

NextRun ==
    \/ ProcessSeed
    \/ TraverseStep
    \/ FinishTraverse
    \/ TopologicalSort
    \/ FetchData
    \/ BuildDeferredUpdates
    \/ Validate
    \/ DoStreamingExtract
    \/ StreamHeader
    \/ StreamTable
    \/ StreamFooter
    \/ GenerateAndOutputSql

SpecRun == InitRun /\ [][NextRun]_vars

\* C11: once the deferred updates are built, for each broken FK, each row
\* of its source table in the RecordSet and each FK column, a DeferredUpdate
\* with the row's primary key, the column and the value the row has in the
\* source database exists if and only if that value is not null.
C11_DeferredUpdateOriginalValue ==
    pc \in {"validate", "stream_header"} =>
        \A fk \in Range(broken_fks) :
            LET pkc == primary_key(schema, fk.source_table)
            IN  \A row \in db[fk.source_table] :
                    TupleOf(row, pkc) \in Get(all_records, fk.source_table, {}) =>
                        \A c \in Range(fk.source_columns) :
                            (DeferredUpdate(fk.source_table, pkc, TupleOf(row, pkc), c, row[c])
                                 \in Range(deferred_updates)) <=> (row[c] # NULL)

\* C12: when the anonymizer has been applied to the fetched rows, it maps
\* every value of every source column of every ForeignKey of the schema
\* graph (introspected or virtual) to itself.
C12_FkColumnsNeverAnonymized ==
    pc = "deferred" =>
        \A fk \in Range(schema.edges) \cup Range(schema.virtual_edges) :
            fk.source_table \in DOMAIN tables_data =>
                \A c \in Range(fk.source_columns) : \A v \in Ids \cup {NULL} :
                    anonymize_value(schema, config, v, fk.source_table, c) = v

\* C13: when the validator has run on the fetched rows, it has found no
\* orphan if and only if no output row has a non-broken parent FK (real or
\* virtual) whose source columns are all non-null and whose values are the
\* primary key of no output row of the parent table; and no orphan it
\* reports belongs to an FK of broken_fks.
C13_ValidIffNoOrphan ==
    (pc \in {"done", "raised", "written"} /\ tables_data # EmptyDict /\ config.validate) =>
        /\ (orphans = {}) <=>
              ~ \E t \in DOMAIN tables_data : \E i \in DOMAIN tables_data[t] :
                  \E fk \in Range(schema.edges) \cup Range(schema.virtual_edges) :
                      /\ fk.source_table = t
                      /\ fk \notin Range(broken_fks)
                      /\ \A c \in Range(fk.source_columns) : tables_data[t][i][c] # NULL
                      /\ ~ \E j \in DOMAIN Get(tables_data, fk.target_table, <<>>) :
                             TupleOf(tables_data[fk.target_table][j],
                                     primary_key(schema, fk.target_table))
                                 = TupleOf(tables_data[t][i], fk.source_columns)
        /\ \A o \in orphans : \A b \in Range(broken_fks) :
              ~(o.table = b.source_table /\ o.fk_name = b.name)

\* The validator has reported an orphan of one FK while a row of the result
\* refers, through a broken FK, to a parent that is not in the result
C13_Witness ==
    /\ pc = "done"
    /\ orphans # {}
    /\ \E b \in Range(broken_fks) : \E i \in DOMAIN Get(tables_data, b.source_table, <<>>) :
          LET row == tables_data[b.source_table][i]
          IN  /\ \A c \in Range(b.source_columns) : row[c] # NULL
              /\ ~has_parent_record(b.target_table, TupleOf(row, b.source_columns),
                                    build_pk_index(schema, tables_data))

\* C14: once validation has found orphans, without fail_on_validation_error
\* the extraction has returned its result (which carries the orphans) and
\* the command goes on to write the output; with fail_on_validation_error
\* the extraction has raised ExtractionError and nothing is written.
C14_ValidationFailure ==
    orphans # {} =>
        IF config.fail_on_validation_error
        THEN pc = "raised" /\ error = "ExtractionError" /\ out_file = <<>>
        ELSE pc \in {"done", "written"} /\ error = "none"
                /\ orphans = validate(schema, tables_data, broken_fks)

\* Validation found orphans under fail_on_validation_error
C14_Witness ==
    orphans # {} /\ config.fail_on_validation_error /\ pc = "raised" /\ tables_data # EmptyDict

\* C15: when a streaming extraction with validation enabled has returned,
\* its result reports the orphans of the emitted rows, and with
\* fail_on_validation_error it has not returned normally if there are any.
C15_StreamingValidates ==
    (pc = "done" /\ stream_idx > 0 /\ config.validate) =>
        LET emitted == [t \in {x \in DOMAIN all_records :
                                  all_records[x] # {} /\ has_table(schema, x)} |->
                           fetch_by_pk(db, t, primary_key(schema, t), all_records[t])]
            found == validate(schema, emitted, broken_fks)
        IN  orphans = found /\ (found # {} => ~config.fail_on_validation_error)

\* C16: when _do_extract has chosen the mode, it has chosen streaming if
\* and only if streaming is forced, or the number of discovered rows is
\* strictly greater than the threshold and there is an output file.
C16_StreamingDecision ==
    (pc \in {"stream", "fetch"} \/ error = "ValueError") =>
        ((pc # "fetch") <=>
            \/ config.stream
            \/ /\ total_rows_estimate(all_records) > config.streaming_threshold
               /\ config.output_file # "")

C18_SeedFailures ==
    LET absent(i) == ~has_table(schema, config.seeds[i].table)
        empty(i) == ~absent(i) /\ ~ \E row \in db[config.seeds[i].table] :
                        row[config.seeds[i].column] \in config.seeds[i].where
        failing == {i \in DOMAIN config.seeds : absent(i) \/ empty(i)}
    IN  failing # {} =>
            LET first == CHOOSE i \in failing : \A j \in failing : i <= j
            IN  /\ pc \in {"seed", "traverse", "raised"}
                /\ seed_idx <= first
                /\ pc = "raised" =>
                      /\ seed_idx = first
                      /\ error = IF absent(first) THEN "TableNotFoundError"
                                 ELSE "NoRowsFoundError"
                /\ tables_data = EmptyDict
                /\ out_file = <<>>

\* The second seed has failed after the first one was resolved
C18_Witness ==
    /\ pc = "raised"
    /\ seed_idx = 2
    /\ all_records # EmptyDict
    /\ error \in {"TableNotFoundError", "NoRowsFoundError"}

\* C19: a seed on a table of the schema whose primary key is empty is
\* rejected: once it has been processed the extraction has raised, and the
\* table has no identity in the RecordSet.
C19_NoPkSeedRejected ==
    \A i \in DOMAIN config.seeds :
        LET t == config.seeds[i].table
        IN  (has_table(schema, t) /\ primary_key(schema, t) = <<>>) =>
                /\ Get(records, t, {}) = {}
                /\ Get(all_records, t, {}) = {}
                /\ (seed_idx > i \/ (seed_idx = i /\ pc # "seed")) => pc = "raised"

\* ------------------------------------------- the filter of WHERE clauses
MaxWhereLen == 6

\* The characters of the WHERE clauses of the model, which are strings of
\* at most MaxWhereLen characters: "D" stands for the keyword DROP, "d" for the same word
\* in lower case, "d_fullwidth" for it in fullwidth letters, "x" for any
\* other letter or digit and " " for white space or an operator
WhereChars == {"'", "\"", ";", " ", "D", "d", "d_fullwidth", "x"}

\* re.sub(r"'(?:[^']*'')*[^']*'", "''", s): the match that starts at a
\* quote takes as many doubled quotes as still leave a closing quote
RECURSIVE sub_single_quoted(_)
sub_single_quoted(s) ==
    LET RECURSIVE match_end(_)
        match_end(p) ==
            LET qs == {j \in (p + 1)..Len(s) : s[j] = "'"}
            IN  IF qs = {} THEN 0
                ELSE LET j == CHOOSE q \in qs : \A r \in qs : q <= r
                     IN  IF j + 1 <= Len(s) /\ s[j + 1] = "'" /\ match_end(j + 1) # 0
                         THEN match_end(j + 1)
                         ELSE j
    IN  IF s = <<>> THEN <<>>
        ELSE IF Head(s) = "'" /\ match_end(1) # 0
        THEN <<"'", "'">> \o sub_single_quoted(SubSeq(s, match_end(1) + 1, Len(s)))
        ELSE <<Head(s)>> \o sub_single_quoted(Tail(s))

\* re.sub(r'"[^"]*"', '""', s)
RECURSIVE sub_double_quoted(_)
sub_double_quoted(s) ==
    LET qs == {j \in 2..Len(s) : s[j] = "\""}
    IN  IF s = <<>> THEN <<>>
        ELSE IF Head(s) = "\"" /\ qs # {}
        THEN <<"\"", "\"">> \o sub_double_quoted(
                 SubSeq(s, (CHOOSE q \in qs : \A r \in qs : q <= r) + 1, Len(s)))
        ELSE <<Head(s)>> \o sub_double_quoted(Tail(s))

\* The construct a search for the semicolon before the keywords would cite
dangerous_keyword_semicolon_first(where_clause) ==
    LET nfkc == [i \in DOMAIN where_clause |->
                    IF where_clause[i] = "d_fullwidth" THEN "d" ELSE where_clause[i]]
        normalized == sub_double_quoted(sub_single_quoted(nfkc))
        upper == [i \in DOMAIN normalized |->
                     IF normalized[i] = "d" THEN "D" ELSE normalized[i]]
        word(i) == i \in DOMAIN upper /\ upper[i] \in {"D", "x"}
    IN  IF where_clause = <<>> THEN "none"
        ELSE IF \E i \in DOMAIN normalized : normalized[i] = ";" THEN ";"
        ELSE IF \E i \in DOMAIN upper : upper[i] = "D" /\ ~word(i - 1) /\ ~word(i + 1)
        THEN "DROP"
        ELSE "none"

\* validate_where_clause, the dangerous_keyword of the error it raises
\* ("none" when it returns): NFKC normalization, removal of the quoted
\* strings, then the search for a keyword between word boundaries (in
\* upper case) and, after it, for a semicolon; the other forbidden
\* constructs cannot be written with the characters of the model
dangerous_keyword(where_clause) ==
    LET nfkc == [i \in DOMAIN where_clause |->
                    IF where_clause[i] = "d_fullwidth" THEN "d" ELSE where_clause[i]]
        normalized == sub_double_quoted(sub_single_quoted(nfkc))
        upper == [i \in DOMAIN normalized |->
                     IF normalized[i] = "d" THEN "D" ELSE normalized[i]]
        word(i) == i \in DOMAIN upper /\ upper[i] \in {"D", "x"}
    IN  IF where_clause = <<>> THEN "none"
        ELSE IF \E i \in DOMAIN upper : upper[i] = "D" /\ ~word(i - 1) /\ ~word(i + 1)
        THEN "DROP"
        ELSE IF \E i \in DOMAIN normalized : normalized[i] = ";" THEN ";"
        ELSE "none"

\* validate_where_clause: InsecureWhereClauseError or the return
validate_where_clause(where_clause) ==
    IF dangerous_keyword(where_clause) = "none" THEN "none"
    ELSE "InsecureWhereClauseError"

\* A seed of the command line with a raw WHERE clause, before it is parsed
InitWhere ==
    /\ \E n \in 0..MaxWhereLen : \E w \in [1..n -> WhereChars] :
          config = [where_clause |-> w]
    /\ pc = "parse"
    /\ db = EmptyDict
    /\ schema = EmptyDict
    /\ seed_idx = 1
    /\ records = EmptyDict
    /\ queue = <<>>
    /\ visited_up = EmptyDict
    /\ visited_down = EmptyDict
    /\ all_records = EmptyDict
    /\ insert_order = <<>>
    /\ broken_fks = <<>>
    /\ tables_data = EmptyDict
    /\ deferred_updates = <<>>
    /\ orphans = {}
    /\ error = "none"
    /\ out_file = <<>>
    /\ stream_idx = 0
    /\ conn = "closed"
    /\ snapshot = "none"
    /\ calls = <<>>
    /\ interrupted = "none"

\* SeedSpec.parse on a seed "table:where_clause"
ParseSeed ==
    /\ pc = "parse"
    /\ error' = validate_where_clause(config.where_clause)
    /\ pc' = IF error' = "none" THEN "parsed" ELSE "raised"
    /\ UNCHANGED <<db, schema, config, seed_idx, travVars, all_records, insert_order,
                   broken_fks, tables_data, deferred_updates, orphans, ioVars, connVars>>

SpecWhere == InitWhere /\ [][ParseSeed]_vars

\* C20: when a WHERE clause has been checked, it has been rejected if a
\* semicolon or the keyword (in any case, in fullwidth letters, between
\* word boundaries) stands outside the string literals and the quoted
\* identifiers of the clause as SQL reads it, and it has been accepted if
\* outside its string literals it holds nothing but other characters.
C20_FilterTotality ==
    pc \in {"parsed", "raised"} =>
        LET s == config.where_clause
            \* the positions outside literals and quoted identifiers; 0 is
            \* among them when the clause ends inside one
            RECURSIVE lex(_, _, _)
            lex(i, mode, acc) ==
                IF i > Len(s) THEN (IF mode = "code" THEN acc ELSE acc \cup {0})
                ELSE IF mode = "code"
                THEN (IF s[i] = "'" THEN lex(i + 1, "literal", acc)
                      ELSE IF s[i] = "\"" THEN lex(i + 1, "identifier", acc)
                      ELSE lex(i + 1, "code", acc \cup {i}))
                ELSE LET q == IF mode = "literal" THEN "'" ELSE "\""
                     IN  IF s[i] # q THEN lex(i + 1, mode, acc)
                         ELSE IF i + 1 <= Len(s) /\ s[i + 1] = q THEN lex(i + 2, mode, acc)
                         ELSE lex(i + 1, "code", acc)
            outside == lex(1, "code", {})
            letter(i) == i \in DOMAIN s /\ s[i] \in {"D", "d", "d_fullwidth", "x"}
            keyword(i) == s[i] \in {"D", "d", "d_fullwidth"}
                             /\ ~letter(i - 1) /\ ~letter(i + 1)
        IN  /\ (0 \notin outside /\ \E i \in outside : s[i] = ";" \/ keyword(i))
                  => error = "InsecureWhereClauseError"
            /\ (0 \notin outside /\ "\"" \notin Range(s) /\ \A i \in outside : s[i] = "x")
                  => error = "none"

\* C21 as stated: when the seed orders:id=1; DROP TABLE users (in the
\* characters of the model "x; D x") has been rejected, the construct the
\* error cites is the semicolon.
C21_CitesSemicolon ==
    (pc = "raised" /\ config.where_clause = <<"x", ";", " ", "D", " ", "x">>) =>
        dangerous_keyword(config.where_clause) = ";"

\* C21, amended: the seed orders:id=1; DROP TABLE users is rejected and
\* the error cites the keyword DROP; a clause with a semicolon and no
\* keyword outside its quoted strings is rejected citing the semicolon.
C21_CitesKeyword ==
    /\ config.where_clause = <<"x", ";", " ", "D", " ", "x">> =>
          /\ pc # "parsed"
          /\ pc = "raised" => /\ error = "InsecureWhereClauseError"
                              /\ dangerous_keyword(config.where_clause) = "DROP"
    /\ config.where_clause = <<"x", ";", " ", "x">> =>
          /\ pc # "parsed"
          /\ pc = "raised" => /\ error = "InsecureWhereClauseError"
                              /\ dangerous_keyword(config.where_clause) = ";"

\* The seed orders:id=1; DROP TABLE users has been rejected
C21_Witness ==
    /\ pc = "raised"
    /\ error = "InsecureWhereClauseError"
    /\ config.where_clause = <<"x", ";", " ", "D", " ", "x">>

\* --------------------------------------------- the batches of fetch_by_pk
MaxPks == 10
MaxArity == 3
MaxBatch == 6

\* PostgreSQLAdapter.DEFAULT_BATCH_SIZE
DEFAULT_BATCH_SIZE == 1000

\* A fetch that sends all the identities in one query
fetch_by_pk_unbatched(pk_count, arity, batch_size) ==
    [error |-> "none",
     queries |-> IF pk_count = 0 THEN <<>>
                 ELSE <<[batch_start |-> 0, batch_end |-> pk_count,
                         params |-> pk_count * arity]>>]

\* PostgreSQLAdapter.fetch_by_pk, the queries it executes for pk_count
\* identities (the positions 0 .. pk_count - 1 of pk_values_list) of a
\* primary key of arity columns: one query per batch_start of
\* range(0, len(pk_values_list), effective_batch_size), with one bound
\* parameter per column and identity; range raises ValueError for step 0
fetch_by_pk_batches(pk_count, arity, batch_size) ==
    LET params_per_row == arity
        effective_batch_size == batch_size \div (IF params_per_row > 1 THEN params_per_row ELSE 1)
        query(batch_start) ==
            LET batch_end == IF batch_start + effective_batch_size < pk_count
                             THEN batch_start + effective_batch_size ELSE pk_count
            IN  [batch_start |-> batch_start, batch_end |-> batch_end,
                 params |-> (batch_end - batch_start) * arity]
    IN  IF pk_count = 0 THEN [error |-> "none", queries |-> <<>>]
        ELSE IF effective_batch_size = 0 THEN [error |-> "ValueError", queries |-> <<>>]
        ELSE [error |-> "none",
              queries |-> [k \in 1..((pk_count + effective_batch_size - 1)
                                        \div effective_batch_size) |->
                              query((k - 1) * effective_batch_size)]]

\* An adapter with a batch size, a primary key of some arity and a set of
\* identities of some size, among them the default batch size with
\* 100,000 identities of a single-column primary key
InitFetch ==
    /\ \/ \E n \in 0..MaxPks, a \in 0..MaxArity, b \in 1..MaxBatch :
             config = [pk_count |-> n, arity |-> a, batch_size |-> b]
       \/ config = [pk_count |-> 100000, arity |-> 1, batch_size |-> DEFAULT_BATCH_SIZE]
    /\ pc = "fetch_by_pk"
    /\ db = EmptyDict
    /\ schema = EmptyDict
    /\ seed_idx = 1
    /\ records = EmptyDict
    /\ queue = <<>>
    /\ visited_up = EmptyDict
    /\ visited_down = EmptyDict
    /\ all_records = EmptyDict
    /\ insert_order = <<>>
    /\ broken_fks = <<>>
    /\ tables_data = EmptyDict
    /\ deferred_updates = <<>>
    /\ orphans = {}
    /\ error = "none"
    /\ out_file = <<>>
    /\ stream_idx = 0
    /\ conn = "open"
    /\ snapshot = "active"
    /\ calls = <<>>
    /\ interrupted = "none"

\* fetch_by_pk, consumed to its end; calls are the queries executed
FetchByPk ==
    /\ pc = "fetch_by_pk"
    /\ LET r == fetch_by_pk_batches(config.pk_count, config.arity, config.batch_size)
       IN  /\ calls' = r.queries
           /\ error' = r.error
           /\ pc' = IF r.error = "none" THEN "fetched" ELSE "raised"
    /\ UNCHANGED <<db, schema, config, seed_idx, travVars, all_records, insert_order,
                   broken_fks, tables_data, deferred_updates, orphans, ioVars,
                   conn, snapshot, interrupted>>

SpecFetch == InitFetch /\ [][FetchByPk]_vars

\* C22 as stated: when fetch_by_pk has ended, it has raised nothing and
\* its queries are the batches of a partition of the identities into
\* floor(batch_size / max(1, arity)) identities each (the last one possibly
\* smaller), one query per batch, each binding at most batch_size
\* parameters; 100,000 identities of a single-column key with the limit
\* 1,000 make 100 queries.
C22_Batching ==
    pc \in {"fetched", "raised"} =>
        LET size == config.batch_size \div (IF config.arity > 1 THEN config.arity ELSE 1)
        IN  /\ error = "none"
            /\ config.pk_count > 0 =>
                  /\ calls # <<>>
                  /\ calls[1].batch_start = 0
                  /\ calls[Len(calls)].batch_end = config.pk_count
            /\ config.pk_count = 0 => calls = <<>>
            /\ \A k \in DOMAIN calls :
                  /\ calls[k].batch_end > calls[k].batch_start
                  /\ calls[k].batch_end - calls[k].batch_start <= size
                  /\ k < Len(calls) =>
                        /\ calls[k].batch_end - calls[k].batch_start = size
                        /\ calls[k + 1].batch_start = calls[k].batch_end
                  /\ calls[k].params <= config.batch_size
            /\ (config.pk_count = 100000 /\ config.arity = 1 /\ config.batch_size = 1000) =>
                  Len(calls) = 100

\* C22, amended: the same when the limit is at least the arity of the
\* primary key; with a limit below the arity the batch size is 0 and
\* fetch_by_pk raises ValueError on a non-empty identity set without any
\* query.
C22_BatchingWithinLimit ==
    pc \in {"fetched", "raised"} =>
        LET size == config.batch_size \div (IF config.arity > 1 THEN config.arity ELSE 1)
        IN  IF config.pk_count > 0 /\ config.batch_size < config.arity
            THEN error = "ValueError" /\ calls = <<>>
            ELSE /\ error = "none"
                 /\ config.pk_count > 0 =>
                       /\ calls # <<>>
                       /\ calls[1].batch_start = 0
                       /\ calls[Len(calls)].batch_end = config.pk_count
                 /\ config.pk_count = 0 => calls = <<>>
                 /\ \A k \in DOMAIN calls :
                       /\ calls[k].batch_end > calls[k].batch_start
                       /\ calls[k].batch_end - calls[k].batch_start <= size
                       /\ k < Len(calls) =>
                             /\ calls[k].batch_end - calls[k].batch_start = size
                             /\ calls[k + 1].batch_start = calls[k].batch_end
                       /\ calls[k].params <= config.batch_size
                 /\ (config.pk_count = 100000 /\ config.arity = 1
                        /\ config.batch_size = 1000) => Len(calls) = 100

\* 100,000 identities have been fetched with the default batch size
C22_Witness ==
    /\ pc = "fetched"
    /\ config.pk_count = 100000
    /\ Len(calls) = 100
    /\ \A k \in DOMAIN calls : calls[k].params = DEFAULT_BATCH_SIZE

\* ------------------------------------- the traversal on a cyclic schema
\* The traversals of the model: the departments/employees schema (a cycle
\* of two tables and a self-reference) with its edge list in every order
\* and a table without primary key; a database whose rows may refer to
\* each other in a cycle and where two employees may share a department;
\* one seed, every direction, depths 0 .. MaxDepth, and excluded and
\* passthrough tables, among them a passthrough table that is excluded,
\* one that is not in the schema and one without primary key.
InitTraverse ==
    /\ \E edges \in Perms(Range(OrgSchema("id", TRUE).edges)) :
          schema = [tables |-> OrgSchema("id", TRUE).tables @@ [audit_log |-> TableInfo(<<>>)],
                    edges |-> edges, virtual_edges |-> <<>>]
    /\ \E mgr \in RefChoices, dept \in ProdChoices \cup UpToChoices, dmgr \in ProdChoices :
          db = OrgDB("id", mgr, dept, dmgr) @@ [audit_log |-> {[note |-> k] : k \in Ids}]
    /\ \E sd \in OrgSeeds("id"), d \in 0..MaxDepth, dir \in {"up", "down", "both"},
          o \in {<<{}, {}>>, <<{"departments"}, {}>>, <<{"employees"}, {}>>,
                 <<{}, {"departments"}>>, <<{"departments"}, {"departments"}>>,
                 <<{}, {"ghost", "audit_log"}>>} :
          config = ExtractConfig(<<sd>>, d, dir, o[1], o[2])
    /\ pc = "seed"
    /\ seed_idx = 1
    /\ records = EmptyDict
    /\ queue = <<>>
    /\ visited_up = EmptyDict
    /\ visited_down = EmptyDict
    /\ all_records = EmptyDict
    /\ insert_order = <<>>
    /\ broken_fks = <<>>
    /\ tables_data = EmptyDict
    /\ deferred_updates = <<>>
    /\ orphans = {}
    /\ error = "none"
    /\ out_file = <<>>
    /\ stream_idx = 0
    /\ conn = "open"
    /\ snapshot = "active"
    /\ calls = <<>>
    /\ interrupted = "none"

SpecTraverse == InitTraverse /\ [][ProcessSeed \/ TraverseStep \/ FinishTraverse]_vars

\* C24: when the traversal of a seed has returned, its RecordSet is the
\* set that the schema's edges define as a set, whatever the order of the
\* edge list: the seed rows; the rows reached from them by at most
\* max_depth child edges (direction DOWN or BOTH); the parents, taken
\* transitively, of those rows and (direction UP or BOTH) of the seed rows;
\* no row of an excluded table but seed rows; and the passthrough tables.
C24_OrderIndependent ==
    pc = "sort" =>
        LET sd == config.seeds[1]
            Ex == config.exclude_tables
            E == Range(schema.edges)
            pk(t, r) == TupleOf(r, primary_key(schema, t))
            Seed == {<<sd.table, pk(sd.table, r)>> :
                        r \in {x \in db[sd.table] : x[sd.column] \in sd.where}}
            Par(S) == UNION {{<<fk.target_table, TupleOf(r, fk.source_columns)>> :
                                r \in {x \in db[fk.source_table] :
                                         /\ <<fk.source_table, pk(fk.source_table, x)>> \in S
                                         /\ NULL \notin Range(TupleOf(x, fk.source_columns))}} :
                             fk \in {e \in E : e.target_table \notin Ex}}
            Ch(S) == UNION {{<<fk.source_table, pk(fk.source_table, r)>> :
                               r \in {x \in db[fk.source_table] :
                                        <<fk.target_table, TupleOf(x, fk.source_columns)>> \in S}} :
                            fk \in {e \in E : e.source_table \notin Ex}}
            RECURSIVE Down(_, _, _)
            Down(k, level, seen) ==
                IF k = 0 \/ level = {} THEN seen
                ELSE Down(k - 1, Ch(level) \ seen, seen \cup Ch(level))
            down == IF config.direction = "up" THEN Seed ELSE Down(config.depth, Seed, Seed)
            blocked == IF config.direction = "down" THEN Seed ELSE {}
            RECURSIVE Up(_)
            Up(S) == LET n == S \cup Par(S \ blocked) IN IF n = S THEN S ELSE Up(n)
            pass == UNION {{<<t, pk(t, r)>> : r \in db[t]} :
                           t \in {x \in config.passthrough_tables \ Ex :
                                     has_table(schema, x) /\ primary_key(schema, x) # <<>>}}
        IN  UNION {{<<t, i>> : i \in all_records[t]} : t \in DOMAIN all_records}
                = Up(down) \cup pass

\* A traversal in both directions has returned rows of both tables that
\* are neither seed rows nor all the rows of their table
C24_Witness ==
    /\ pc = "sort"
    /\ config.direction = "both"
    /\ config.depth > 0
    /\ config.exclude_tables = {} /\ config.passthrough_tables = {}
    /\ config.seeds[1].table = "employees"
    /\ DOMAIN all_records = {"employees", "departments"}
    /\ Cardinality(all_records["employees"]) > Cardinality(config.seeds[1].where)
    /\ Cardinality(all_records["departments"]) < MaxId

\* C25: when the traversal of a seed has returned, every row of the
\* RecordSet is a seed row, or is connected to a seed row by a chain of at
\* most max_depth child edges (no such row with direction UP), or is a
\* parent, taken transitively, of one of those rows, or is a row of a
\* passthrough table: no child of a row that was pulled in as a parent is
\* in it, and no child beyond max_depth.
C25_DepthBoundsDown ==
    pc = "sort" =>
        LET sd == config.seeds[1]
            E == Range(schema.edges)
            pk(t, r) == TupleOf(r, primary_key(schema, t))
            Seed == {<<sd.table, <<k>>>> : k \in sd.where}
            Par(S) == {<<fk.target_table, TupleOf(r, fk.source_columns)>> :
                          <<fk, r>> \in {<<e, x>> \in E \X UNION Range(db) :
                                 /\ x \in db[e.source_table]
                                 /\ <<e.source_table, pk(e.source_table, x)>> \in S}}
            Ch(S) == {<<fk.source_table, pk(fk.source_table, r)>> :
                         <<fk, r>> \in {<<e, x>> \in E \X UNION Range(db) :
                                /\ x \in db[e.source_table]
                                /\ <<e.target_table, TupleOf(x, e.source_columns)>> \in S}}
            RECURSIVE Chain(_, _)
            Chain(k, S) == IF k = 0 THEN S ELSE Chain(k - 1, S \cup Ch(S))
            RECURSIVE Anc(_)
            Anc(S) == IF Par(S) \subseteq S THEN S ELSE Anc(S \cup Par(S))
            down == IF config.direction = "up" THEN Seed ELSE Chain(config.depth, Seed)
        IN  \A t \in DOMAIN all_records : \A i \in all_records[t] :
                <<t, i>> \in Anc(down) \/ t \in config.passthrough_tables

\* The seed employee's department has been pulled in by an UP traversal
\* and another employee of that department is not in the RecordSet
C25_Witness ==
    /\ pc = "sort"
    /\ config.direction = "up"
    /\ config.depth > 0
    /\ config.seeds[1].table = "employees"
    /\ \E r \in db.employees : \E o \in db.employees :
          /\ <<r.id>> \in all_records["employees"]
          /\ r.department_id # NULL
          /\ "departments" \in DOMAIN all_records
          /\ <<r.department_id>> \in all_records["departments"]
          /\ o.department_id = r.department_id
          /\ <<o.id>> \notin all_records["employees"]

\* C28: the rows of a table of exclude_tables that the traversal or the
\* RecordSet holds are seed rows of that table.
C28_ExcludedNeverAdded ==
    \A t \in config.exclude_tables :
        Get(records, t, {}) \cup Get(all_records, t, {})
            \subseteq UNION {{<<k>> : k \in config.seeds[i].where} :
                             i \in {j \in DOMAIN config.seeds : config.seeds[j].table = t}}

\* The traversal has returned without the excluded department of the seed
\* employee, although departments is a passthrough table as well
C28_Witness ==
    /\ pc = "sort"
    /\ config.exclude_tables = {"departments"}
    /\ config.passthrough_tables = {"departments"}
    /\ config.seeds[1].table = "employees"
    /\ "departments" \notin DOMAIN all_records
    /\ \E r \in db.employees : <<r.id>> \in all_records["employees"] /\ r.department_id # NULL

\* C23: when the traversal of a seed has returned, the RecordSet holds
\* every row of each passthrough table that is in the schema, has a primary
\* key and is not excluded; a passthrough table that is not in the schema
\* or has no primary key is not in the RecordSet, one that is excluded has
\* there at most seed rows, and no error was raised.
C23_Passthrough ==
    /\ config.passthrough_tables # {} => pc # "raised"
    /\ pc = "sort" =>
          \A t \in config.passthrough_tables :
              IF t \in config.exclude_tables
              THEN Get(all_records, t, {}) \subseteq
                      (IF config.seeds[1].table = t
                       THEN {<<k>> : k \in config.seeds[1].where} ELSE {})
              ELSE IF has_table(schema, t) /\ primary_key(schema, t) # <<>>
              THEN /\ t \in DOMAIN all_records
                   /\ all_records[t] = {TupleOf(r, primary_key(schema, t)) : r \in db[t]}
              ELSE t \notin DOMAIN all_records

\* All departments are in the RecordSet of a traversal that by itself
\* reaches none of them
C23_Witness ==
    /\ pc = "sort"
    /\ config.passthrough_tables = {"departments"}
    /\ config.exclude_tables = {}
    /\ config.seeds[1].table = "employees"
    /\ config.direction = "down"
    /\ config.depth = 0
    /\ Cardinality(all_records["departments"]) = MaxId

\* The initial states of InitTraverse whose edge list is in the order of the
\* schema
InitTraverseFair ==
    /\ InitTraverse
    /\ schema.edges = OrgSchema("id", TRUE).edges

\* The traversal under the scheduling of the code: _do_extract and the
\* while loop of traverse run their next step as long as there is one
SpecTraverseFair ==
    /\ InitTraverseFair
    /\ [][ProcessSeed \/ TraverseStep \/ FinishTraverse]_vars
    /\ WF_vars(ProcessSeed)
    /\ WF_vars(TraverseStep)
    /\ WF_vars(FinishTraverse)

\* C26: a traversal that has started ends: whatever the schema's cycles,
\* the row data, the direction and max_depth, the queue becomes empty after
\* finitely many iterations and traverse returns.
C26_Terminates == (pc = "traverse") ~> (pc = "sort" /\ queue = <<>>)

\* A traversal in both directions has returned on row data in which two
\* employees are each other's manager
C26_Witness ==
    /\ pc = "sort"
    /\ queue = <<>>
    /\ config.direction = "both"
    /\ config.depth > 0
    /\ config.seeds[1].table = "employees"
    /\ \E r \in db.employees : \E o \in db.employees :
          /\ r.id # o.id
          /\ r.manager_id = o.id
          /\ o.manager_id = r.id
          /\ {<<r.id>>, <<o.id>>} \subseteq all_records["employees"]

\* C27: every foreign key in broken_fks is nullable, whatever the cycles
\* of the schema and whichever foreign keys lie on them.
C27_BrokenFksNullable ==
    \A fk \in Range(broken_fks) : fk.is_nullable

\* The sort has broken a nullable foreign key of a cycle of two tables whose
\* other foreign key is NOT NULL and comes first in schema.edges
C27_Witness ==
    /\ pc # "sort"
    /\ error = "none"
    /\ \E i, j \in DOMAIN schema.edges :
          /\ i < j
          /\ ~schema.edges[i].is_nullable
          /\ schema.edges[j] \in Range(broken_fks)
          /\ schema.edges[i].source_table = schema.edges[j].target_table
          /\ schema.edges[i].target_table = schema.edges[j].source_table
          /\ schema.edges[i].source_table # schema.edges[i].target_table

\* C29: once a streaming extraction has returned, no later step of the
\* command changes the output file: its content stays the streamed script.
C29_StreamedFileKept ==
    [][(pc = "done" /\ stream_idx > 0) => out_file' = out_file]_vars

\* C30: when a streaming extraction with anonymization has returned, the
\* primary-key columns of every emitted row hold the identity of a row of
\* the RecordSet of its table.
C30_PkNeverAnonymized ==
    (pc = "done" /\ config.anonymize) =>
        \A i \in DOMAIN out_file :
            out_file[i].kind = "INSERT" =>
                TupleOf(out_file[i].row, primary_key(schema, out_file[i].table))
                    \in Get(all_records, out_file[i].table, {})
====
